---- MODULE Spec2Model ----
(***************************************************************************)
(* A model of the ggrs spectator session and of its input codec.           *)
(*                                                                         *)
(*   src/src/network/compression.rs          encode / decode (XOR delta,   *)
(*                                            then bitfield RLE)           *)
(*   src/src/network/udp_msg.rs              ConnectionStatus, Input       *)
(*   src/src/sessions/p2p_spectator_session.rs   SpectatorSession          *)
(*                                                                         *)
(* The host endpoint (UdpProtocol) and the bitfield_rle crate are not part *)
(* of the sources at hand; they are modelled from the specification's      *)
(* description of them and marked so where they are defined.               *)
(***************************************************************************)
EXTENDS Integers, Sequences, FiniteSets, TLC

\* ------------------------------------------------------------------ bounds
\* Largest number of inputs in one encoded run.
MaxInputs == 2
\* Largest input size (bytes per input) drawn for the codec.
MaxSize == 2

\* Players of the spectated game (SpectatorSessionBuilder::new's num_players).
NumPlayers == 2
\* The host delivers the inputs of frames 0..MaxFrame.
MaxFrame == 62
\* Most inputs one Input datagram carries.
MaxBatch == 2
\* How many already received frames a (resent or duplicated) datagram may repeat.
MaxOverlap == 1
\* The host delivers the frames 0..MaxShortFrame where players disconnect.
MaxShortFrame == 3
\* The host delivers the frames 0..MaxRateFrame where it delivers at a fixed rate.
MaxRateFrame == 125
\* Most inputs per advance_frame call of a host delivering at a fixed rate.
MaxRate == 2
\* Longest decompressed payload of a received datagram, in bytes.
MaxRaw == 3
\* synctest: the advance_frame calls made
MaxSyncCalls == 200
\* synctest: the largest frame delay set
MaxDelay == 2
\* P2P: the local player simulates the frames 0..MaxP2PFrame
MaxP2PFrame == 15
\* P2P: how often the remote player's input changes from one frame to the next
MaxFlips == 2

\* --------------------------------------------------------------- constants
NULL_FRAME == -1
SPECTATOR_BUFFER_SIZE == 60
DEFAULT_MAX_FRAMES_BEHIND == 10
NORMAL_SPEED == 1
DEFAULT_CATCHUP_SPEED == 1
MAX_EVENT_QUEUE_SIZE == 100
\* Successful sync round trips before the endpoint is synchronized.
NUM_SYNC_PACKETS == 5

VARIABLES
    \* codec: the arguments and results of encode / decode
    reference, pending_input, start_frame, encoded, decoded, cpc,
    \* SpectatorSession's fields
    state, inputs, host_connect_status, host, event_queue,
    current_frame, last_recv_frame, max_frames_behind, catchup_speed,
    \* what the last call handed back to the caller
    last_op, result, requests,
    \* a failed assert! has aborted the program
    panicked,
    \* history: the AdvanceFrame requests returned to the caller so far
    emitted,
    \* the events the last call returned: those events() drained
    drained,
    \* history: the events the last call pushed to the session's queue, in order
    pushed,
    \* history, where stale replies arrive: the nonce of the SyncReply the last
    \* call received (0: none)
    replied,
    \* the argument of the last call of a setter
    arg,
    \* history: the highest frame of the inputs in the datagrams received so far
    highest,
    \* history, where datagrams arrive out of order: the first frame of the
    \* inputs in the last datagram the last call received (NULL_FRAME: none)
    oldest,
    \* the synctest session and the host's game that fulfils its requests
    sync, stub,
    \* the frame a MismatchedChecksum error named (NULL_FRAME: none)
    reported,
    \* history: saved_sums[f + 1] is the set of checksums the host has saved for
    \* frame f; glitched: the host has not been deterministic
    saved_sums, glitched,
    \* the P2P session with its sync layer
    p2p,
    \* environment: the inputs the host delivers per advance_frame call, where
    \* its rate is fixed (0: no fixed rate)
    rate

codecVars == <<reference, pending_input, start_frame, encoded, decoded, cpc>>
sessVars == <<state, inputs, host_connect_status, host, event_queue,
              current_frame, last_recv_frame, max_frames_behind, catchup_speed>>
obsVars == <<last_op, result, requests, panicked, emitted, drained, pushed, replied, arg, highest, oldest>>
rollVars == <<sync, stub, reported, saved_sums, glitched, p2p>>
vars == <<codecVars, sessVars, obsVars, rate, rollVars>>

\* ================================================================== bytes
\* b1 ^ b2 on u8, bit by bit.
RECURSIVE XorBits(_, _, _)
XorBits(a, b, n) ==
    IF n = 0 THEN 0
    ELSE (IF (a % 2) = (b % 2) THEN 0 ELSE 1) + 2 * XorBits(a \div 2, b \div 2, n - 1)

Xor8(a, b) == XorBits(a, b, 8)

RECURSIVE Concat(_)
Concat(ss) == IF ss = <<>> THEN <<>> ELSE Head(ss) \o Concat(Tail(ss))

\* GameInput::new(frame, size): a zeroed buffer of `size` bytes.
GameInputNew(frame, size) ==
    [frame |-> frame, size |-> size, buffer |-> [i \in 1..size |-> 0]]

\* ============================================================ bitfield RLE
\* varinteger: little-endian base-128, high bit set on every byte but the last.
RECURSIVE VarintEncode(_)
VarintEncode(v) ==
    IF v < 128 THEN <<v>> ELSE <<128 + (v % 128)>> \o VarintEncode(v \div 128)

\* The value of the varint at data[off..], and the offset after it; ok = FALSE
\* when the buffer ends inside it.
RECURSIVE VarintDecode(_, _)
VarintDecode(data, off) ==
    IF off > Len(data) THEN [ok |-> FALSE, value |-> 0, next |-> off]
    ELSE IF data[off] < 128 THEN [ok |-> TRUE, value |-> data[off], next |-> off + 1]
    ELSE LET rest == VarintDecode(data, off + 1)
         IN  [ok |-> rest.ok, value |-> (data[off] - 128) + 128 * rest.value,
              next |-> rest.next]

IsFill(b) == b = 0 \/ b = 255

\* The length of the run starting at buf[i]: equal fill bytes (0x00 or 0xFF), or
\* bytes that are neither.
RECURSIVE RunLen(_, _)
RunLen(buf, i) ==
    IF i >= Len(buf) THEN 1
    ELSE IF IsFill(buf[i]) /\ buf[i + 1] = buf[i] THEN 1 + RunLen(buf, i + 1)
    ELSE IF ~IsFill(buf[i]) /\ ~IsFill(buf[i + 1]) THEN 1 + RunLen(buf, i + 1)
    ELSE 1

\* bitfield_rle::encode: a fill run of n bytes becomes varint(n << 2 | bit << 1 | 1),
\* a run of n other bytes becomes varint(n << 1) followed by the bytes.
RECURSIVE RleEncodeFrom(_, _)
RleEncodeFrom(buf, i) ==
    IF i > Len(buf) THEN <<>>
    ELSE LET n == RunLen(buf, i)
         IN  (IF IsFill(buf[i])
              THEN VarintEncode(4 * n + (IF buf[i] = 0 THEN 0 ELSE 2) + 1)
              ELSE VarintEncode(2 * n) \o SubSeq(buf, i, i + n - 1))
             \o RleEncodeFrom(buf, i + n)

rle_encode(buf) == RleEncodeFrom(buf, 1)

\* bitfield_rle::decode: the inverse; an error when a header or a literal run
\* reaches beyond the end of the data.
RECURSIVE RleDecodeFrom(_, _)
RleDecodeFrom(data, off) ==
    IF off > Len(data) THEN [ok |-> TRUE, bytes |-> <<>>]
    ELSE LET h == VarintDecode(data, off)
         IN  IF ~h.ok THEN [ok |-> FALSE, bytes |-> <<>>]
             ELSE IF h.value % 2 = 1
             THEN LET n    == h.value \div 4
                      bit  == (h.value \div 2) % 2
                      rest == RleDecodeFrom(data, h.next)
                  IN  [ok |-> rest.ok,
                       bytes |-> [k \in 1..n |-> IF bit = 1 THEN 255 ELSE 0] \o rest.bytes]
             ELSE LET n == h.value \div 2
                  IN  IF h.next + n - 1 > Len(data) THEN [ok |-> FALSE, bytes |-> <<>>]
                      ELSE LET rest == RleDecodeFrom(data, h.next + n)
                           IN  [ok |-> rest.ok,
                                bytes |-> SubSeq(data, h.next, h.next + n - 1) \o rest.bytes]

rle_decode(data) == RleDecodeFrom(data, 1)

\* ================================================================== codec
\* reference.input() / input.input(): the first `size` bytes of the buffer.
InputBytes(g) == SubSeq(g.buffer, 1, g.size)

\* The two assertions of delta_encode's loop, for the i-th input (i from 0).
DeltaEncodeAsserts(ref, xs) ==
    \A k \in 1..Len(xs) :
        /\ xs[k].size = ref.size
        /\ (ref.frame = NULL_FRAME \/ xs[k].frame = ref.frame + (k - 1) + 1)

\* The zip without the XOR: the input's bytes as they are.
XorZip_input_only(ref_bytes, input_bytes) ==
    [j \in 1..(IF Len(ref_bytes) < Len(input_bytes) THEN Len(ref_bytes) ELSE Len(input_bytes))
        |-> input_bytes[j]]

XorZip(ref_bytes, input_bytes) ==
    [j \in 1..(IF Len(ref_bytes) < Len(input_bytes) THEN Len(ref_bytes) ELSE Len(input_bytes))
        |-> Xor8(ref_bytes[j], input_bytes[j])]

\* delta_encode: every input XORed with the reference, concatenated; a failed
\* assertion aborts.
delta_encode(ref, xs) ==
    IF ~DeltaEncodeAsserts(ref, xs) THEN [tag |-> "Panic", bytes |-> <<>>]
    ELSE [tag |-> "Ok",
          bytes |-> Concat([k \in 1..Len(xs) |-> XorZip(InputBytes(ref), InputBytes(xs[k]))])]

\* encode: delta_encode, then the RLE.
encode(ref, xs) ==
    LET buf == delta_encode(ref, xs)
    IN  IF buf.tag = "Panic" THEN buf ELSE [tag |-> "Ok", bytes |-> rle_encode(buf.bytes)]

\* delta_decode with the frames counted from one: start_frame + inp + 1.
delta_decode_frame_off_by_one(ref, start, data) ==
    IF ref.size = 0 \/ Len(data) % ref.size # 0 THEN [tag |-> "Panic", inputs |-> <<>>]
    ELSE LET out_size == Len(data) \div ref.size
         IN  [tag |-> "Ok",
              inputs |-> [inp \in 1..out_size |->
                  [frame |-> start + inp, size |-> ref.size,
                   buffer |-> [i \in 1..ref.size |->
                       Xor8(InputBytes(ref)[i], data[ref.size * (inp - 1) + i])]]]]

\* delta_decode: data.len() / reference.size inputs, the inp-th stamped
\* start_frame + inp; the length assertion (and the remainder by a zero size)
\* aborts.
delta_decode(ref, start, data) ==
    IF ref.size = 0 \/ Len(data) % ref.size # 0 THEN [tag |-> "Panic", inputs |-> <<>>]
    ELSE LET out_size == Len(data) \div ref.size
         IN  [tag |-> "Ok",
              inputs |-> [inp \in 1..out_size |->
                  [frame |-> start + (inp - 1), size |-> ref.size,
                   buffer |-> [i \in 1..ref.size |->
                       Xor8(InputBytes(ref)[i], data[ref.size * (inp - 1) + i])]]]]

\* decode: the RLE first (its error is returned), then delta_decode.
decode(ref, start, data) ==
    LET buf == rle_decode(data)
    IN  IF ~buf.ok THEN [tag |-> "Err", inputs |-> <<>>]
        ELSE delta_decode(ref, start, buf.bytes)

\* ======================================================== spectator: data
Players == 1..NumPlayers

\* ConnectionStatus::default()
DefaultConnectionStatus == [disconnected |-> FALSE, last_frame |-> NULL_FRAME]

\* T::Input::zeroed(): the all-zero input of one player.
Zeroed == 0

\* PlayerInput::blank_input(frame): the ring's initial content. A ring entry is
\* the host's input of one frame for all players; data[p] is player p's part.
BlankInput(frame) == [frame |-> frame, data |-> [p \in Players |-> Zeroed]]

\* PlayerInput::new(frame, input)
PlayerInputNew(frame, input) == [frame |-> frame, input |-> input]

\* The input the host's game has for player p at frame f, as the host sends it.
HostInputOf(f, p) == (3 * f + p) % 256

HostInput(f) == [frame |-> f, data |-> [p \in Players |-> HostInputOf(f, p)]]

\* The slot after the frame's own.
Slot_next(frame) == (frame + 1) % SPECTATOR_BUFFER_SIZE

\* frame as usize % SPECTATOR_BUFFER_SIZE
Slot(frame) == frame % SPECTATOR_BUFFER_SIZE

\* ================================================== host endpoint (UdpProtocol)
\* UdpProtocol::new followed by synchronize(): the endpoint starts its handshake.
\* The nonce of the first SyncRequest is 1 and every later request takes the
\* next number: a fresh nonce differs from all earlier ones. `silence` is the
\* time since the last received packet: 0 below disconnect_notify_start, 1 from
\* there on, 2 from disconnect_timeout on.
HostNew ==
    [state |-> "Synchronizing",
     sync_remaining_roundtrips |-> NUM_SYNC_PACKETS,
     sync_random_request |-> 1,
     silence |-> 0,
     disconnect_notify_sent |-> FALSE,
     last_recv_frame |-> NULL_FRAME,
     peer_connect_status |-> [p \in Players |-> DefaultConnectionStatus],
     event_queue |-> <<>>]

\* A SyncReply counted whatever its nonce.
OnSyncReply_any_nonce(h, msg) ==
    IF h.state # "Synchronizing" THEN h
    ELSE IF h.sync_remaining_roundtrips > 1
    THEN [h EXCEPT !.sync_remaining_roundtrips = @ - 1,
                   !.sync_random_request = @ + 1,
                   !.event_queue = Append(@, [type |-> "Synchronizing",
                                              total |-> NUM_SYNC_PACKETS,
                                              count |-> NUM_SYNC_PACKETS - (h.sync_remaining_roundtrips - 1)])]
    ELSE [h EXCEPT !.sync_remaining_roundtrips = 0,
                   !.state = "Running",
                   !.event_queue = Append(@, [type |-> "Synchronized"])]

\* A SyncReply: one whose nonce is not the pending request's is discarded; a
\* matching one is one more round trip, answered by a request with a fresh
\* nonce; the last one synchronizes.
OnSyncReply(h, msg) ==
    IF h.state # "Synchronizing" THEN h
    ELSE IF msg.random_reply # h.sync_random_request THEN h
    ELSE IF h.sync_remaining_roundtrips > 1
    THEN [h EXCEPT !.sync_remaining_roundtrips = @ - 1,
                   !.sync_random_request = @ + 1,
                   !.event_queue = Append(@, [type |-> "Synchronizing",
                                              total |-> NUM_SYNC_PACKETS,
                                              count |-> NUM_SYNC_PACKETS - (h.sync_remaining_roundtrips - 1)])]
    ELSE [h EXCEPT !.sync_remaining_roundtrips = 0,
                   !.state = "Running",
                   !.event_queue = Append(@, [type |-> "Synchronized"])]

\* The Input events of a datagram's inputs, none dropped.
RECURSIVE InputEvents_no_drop(_, _)
InputEvents_no_drop(last, ins) ==
    IF ins = <<>> THEN <<>>
    ELSE <<[type |-> "Input", input |-> Head(ins)]>> \o InputEvents_no_drop(last, Tail(ins))

\* The Input events of a datagram's inputs: those with a frame beyond the last
\* received one, in ascending order.
RECURSIVE InputEvents(_, _)
InputEvents(last, ins) ==
    IF ins = <<>> THEN <<>>
    ELSE IF Head(ins).frame <= last THEN InputEvents(last, Tail(ins))
    ELSE <<[type |-> "Input", input |-> Head(ins)]>> \o InputEvents(Head(ins).frame, Tail(ins))

MaxOf(a, b) == IF a > b THEN a ELSE b

\* An Input datagram: the connect-status view is merged in, the inputs not yet
\* received become Input events.
OnInput(h, msg) ==
    LET evs == InputEvents(h.last_recv_frame, msg.inputs)
    IN  [h EXCEPT
            !.peer_connect_status = [p \in Players |->
                [disconnected |-> @[p].disconnected \/ msg.peer_connect_status[p].disconnected,
                 last_frame   |-> MaxOf(@[p].last_frame, msg.peer_connect_status[p].last_frame)]],
            !.last_recv_frame = IF evs = <<>> THEN @ ELSE evs[Len(evs)].input.frame,
            !.event_queue = @ \o evs]

\* The time until the disconnect that a NetworkInterrupted event announces, in
\* milliseconds: disconnect_timeout - disconnect_notify_start.
DISCONNECT_REMAINING == 1500

\* Any received message ends the silence; in a Running endpoint that has
\* announced an interruption it emits NetworkResumed.
OnReceive(h) ==
    IF h.state = "Running" /\ h.disconnect_notify_sent
    THEN [h EXCEPT !.silence = 0,
                   !.disconnect_notify_sent = FALSE,
                   !.event_queue = Append(@, [type |-> "NetworkResumed"])]
    ELSE [h EXCEPT !.silence = 0]

\* UdpProtocol::handle_message
HostHandleMessage(h, msg) ==
    IF h.state = "Disconnected" THEN h
    ELSE LET h1 == OnReceive(h)
         IN  IF msg.type = "SyncReply" THEN OnSyncReply(h1, msg)
             ELSE IF msg.type = "Input" THEN OnInput(h1, msg)
             ELSE h1

\* UdpProtocol::poll that reports the timeout and keeps running.
HostPoll_not_terminal(h) ==
    IF h.state = "Running" /\ h.silence >= 2
    THEN [h EXCEPT !.disconnect_notify_sent = TRUE,
                   !.event_queue = Append(@, [type |-> "Disconnected"])]
    ELSE h

\* UdpProtocol::poll, the timers of a Running endpoint: NetworkInterrupted once
\* when nothing was received for disconnect_notify_start; Disconnected, and the
\* terminal state, when nothing was received for disconnect_timeout.
HostPoll(h) ==
    IF h.state # "Running" THEN h
    ELSE LET h1 == IF ~h.disconnect_notify_sent /\ h.silence >= 1
                   THEN [h EXCEPT !.disconnect_notify_sent = TRUE,
                                  !.event_queue = Append(@, [type |-> "NetworkInterrupted",
                                                             disconnect_timeout |-> DISCONNECT_REMAINING])]
                   ELSE h
         IN  IF h1.silence >= 2
             THEN [h1 EXCEPT !.state = "Disconnected",
                             !.event_queue = Append(@, [type |-> "Disconnected"])]
             ELSE h1

RECURSIVE HostHandleAll(_, _)
HostHandleAll(h, msgs) ==
    IF msgs = <<>> THEN h ELSE HostHandleAll(HostHandleMessage(h, Head(msgs)), Tail(msgs))

\* ====================================================== spectator: session
Sess ==
    [state |-> state, inputs |-> inputs, host_connect_status |-> host_connect_status,
     host |-> host, event_queue |-> event_queue, current_frame |-> current_frame,
     last_recv_frame |-> last_recv_frame, max_frames_behind |-> max_frames_behind,
     catchup_speed |-> catchup_speed, panicked |-> panicked]

\* SpectatorSession::new
SessionNew(h, mfb, cs) ==
    [state |-> "Synchronizing",
     inputs |-> [k \in 0..(SPECTATOR_BUFFER_SIZE - 1) |-> BlankInput(NULL_FRAME)],
     host_connect_status |-> [p \in Players |-> DefaultConnectionStatus],
     host |-> h,
     event_queue |-> <<>>,
     current_frame |-> NULL_FRAME,
     last_recv_frame |-> NULL_FRAME,
     max_frames_behind |-> mfb,
     catchup_speed |-> cs,
     panicked |-> FALSE]

\* set_catchup_speed without the upper limit.
set_catchup_speed_unlimited(s, desired_catchup_speed) ==
    IF desired_catchup_speed < 1 THEN [sess |-> s, result |-> "InvalidRequest"]
    ELSE [sess |-> [s EXCEPT !.catchup_speed = desired_catchup_speed], result |-> "Ok"]

\* SpectatorSession::set_catchup_speed
set_catchup_speed(s, desired_catchup_speed) ==
    IF desired_catchup_speed < 1 THEN [sess |-> s, result |-> "InvalidRequest"]
    ELSE IF desired_catchup_speed >= s.max_frames_behind
    THEN [sess |-> s, result |-> "InvalidRequest"]
    ELSE [sess |-> [s EXCEPT !.catchup_speed = desired_catchup_speed], result |-> "Ok"]

\* SpectatorSession::set_max_frames_behind
set_max_frames_behind(s, desired_value) ==
    IF desired_value < 1 THEN [sess |-> s, result |-> "InvalidRequest"]
    ELSE IF desired_value >= SPECTATOR_BUFFER_SIZE
    THEN [sess |-> s, result |-> "InvalidRequest"]
    ELSE [sess |-> [s EXCEPT !.max_frames_behind = desired_value], result |-> "Ok"]

\* The tail of handle_event keeping the oldest events instead of the newest.
TrimQueue_keep_oldest(q) ==
    IF Len(q) > MAX_EVENT_QUEUE_SIZE THEN SubSeq(q, 1, MAX_EVENT_QUEUE_SIZE) ELSE q

\* The tail of handle_event: the oldest events go while the queue is too long.
RECURSIVE TrimQueue(_)
TrimQueue(q) == IF Len(q) > MAX_EVENT_QUEUE_SIZE THEN TrimQueue(Tail(q)) ELSE q

\* The user-visible event (GGRSEvent) an endpoint event is forwarded as.
Forwarded(e) ==
    CASE e.type = "Synchronizing" ->
            [type |-> "Synchronizing", player_handle |-> 0, total |-> e.total, count |-> e.count]
      [] e.type = "NetworkInterrupted" ->
            [type |-> "NetworkInterrupted", player_handle |-> 0,
             disconnect_timeout |-> e.disconnect_timeout]
      [] OTHER -> [type |-> e.type, player_handle |-> 0]

\* handle_event that takes every forwarded event for the end of the handshake.
handle_event_running_on_any(s, e) ==
    LET s1 ==
        IF e.type = "Input"
        THEN LET stored == [s EXCEPT !.inputs[Slot(e.input.frame)] = e.input]
             IN  IF ~(e.input.frame > s.last_recv_frame)
                 THEN [stored EXCEPT !.panicked = TRUE]
                 ELSE [stored EXCEPT
                          !.last_recv_frame = e.input.frame,
                          !.host_connect_status =
                              [p \in Players |-> s.host.peer_connect_status[p]]]
        ELSE [s EXCEPT !.state = "Running", !.event_queue = Append(@, Forwarded(e))]
    IN  IF s1.panicked THEN s1 ELSE [s1 EXCEPT !.event_queue = TrimQueue(@)]

\* SpectatorSession::handle_event
handle_event(s, e) ==
    LET s1 ==
        IF e.type = "Input"
        THEN LET stored == [s EXCEPT !.inputs[Slot(e.input.frame)] = e.input]
             IN  IF ~(e.input.frame > s.last_recv_frame)
                 THEN [stored EXCEPT !.panicked = TRUE]
                 ELSE [stored EXCEPT
                          !.last_recv_frame = e.input.frame,
                          !.host_connect_status =
                              [p \in Players |-> s.host.peer_connect_status[p]]]
        ELSE IF e.type = "Synchronized"
        THEN [s EXCEPT !.state = "Running", !.event_queue = Append(@, Forwarded(e))]
        ELSE [s EXCEPT !.event_queue = Append(@, Forwarded(e))]
    IN  IF s1.panicked THEN s1 ELSE [s1 EXCEPT !.event_queue = TrimQueue(@)]

RECURSIVE HandleEvents(_, _)
HandleEvents(s, evs) ==
    IF evs = <<>> \/ s.panicked THEN s
    ELSE HandleEvents(handle_event(s, Head(evs)), Tail(evs))

\* SpectatorSession::poll_remote_clients: the received messages go to the host
\* endpoint, whose events are then handled one by one.
poll_remote_clients(s, msgs) ==
    LET h   == HostPoll(HostHandleAll(s.host, msgs))
        evs == h.event_queue
    IN  HandleEvents([s EXCEPT !.host = [h EXCEPT !.event_queue = <<>>]], evs)

\* The per-player inputs inputs_at_frame builds for a frame it has.
SyncedInputs(s, frame_to_grab) ==
    [p \in Players |->
        IF s.host_connect_status[p].disconnected
              /\ s.host_connect_status[p].last_frame < frame_to_grab
        THEN PlayerInputNew(NULL_FRAME, Zeroed)
        ELSE PlayerInputNew(frame_to_grab, Zeroed)]

\* inputs_at_frame with its two errors swapped.
inputs_at_frame_errors_swapped(s, frame_to_grab) ==
    LET merged_input == s.inputs[Slot(frame_to_grab)]
    IN  IF merged_input.frame < frame_to_grab
        THEN [tag |-> "SpectatorTooFarBehind", inputs |-> <<>>]
        ELSE IF merged_input.frame > frame_to_grab
        THEN [tag |-> "PredictionThreshold", inputs |-> <<>>]
        ELSE [tag |-> "Ok", inputs |-> SyncedInputs(s, frame_to_grab)]

\* inputs_at_frame without the check for an overwritten slot.
inputs_at_frame_no_overwrite_check(s, frame_to_grab) ==
    LET merged_input == s.inputs[Slot(frame_to_grab)]
    IN  IF merged_input.frame < frame_to_grab
        THEN [tag |-> "PredictionThreshold", inputs |-> <<>>]
        ELSE [tag |-> "Ok", inputs |-> SyncedInputs(s, frame_to_grab)]

\* inputs_at_frame with the disconnect frame itself already counted as gone.
inputs_at_frame_last_frame_le(s, frame_to_grab) ==
    LET merged_input == s.inputs[Slot(frame_to_grab)]
    IN  IF merged_input.frame < frame_to_grab
        THEN [tag |-> "PredictionThreshold", inputs |-> <<>>]
        ELSE IF merged_input.frame > frame_to_grab
        THEN [tag |-> "SpectatorTooFarBehind", inputs |-> <<>>]
        ELSE [tag |-> "Ok",
              inputs |-> [p \in Players |->
                  IF s.host_connect_status[p].disconnected
                        /\ s.host_connect_status[p].last_frame <= frame_to_grab
                  THEN PlayerInputNew(NULL_FRAME, Zeroed)
                  ELSE PlayerInputNew(frame_to_grab, Zeroed)]]

\* inputs_at_frame that does not wait for an input not yet received.
inputs_at_frame_no_wait(s, frame_to_grab) ==
    LET merged_input == s.inputs[Slot(frame_to_grab)]
    IN  IF merged_input.frame > frame_to_grab
        THEN [tag |-> "SpectatorTooFarBehind", inputs |-> <<>>]
        ELSE [tag |-> "Ok", inputs |-> SyncedInputs(s, frame_to_grab)]

\* SpectatorSession::inputs_at_frame
inputs_at_frame(s, frame_to_grab) ==
    LET merged_input == s.inputs[Slot(frame_to_grab)]
    IN  IF merged_input.frame < frame_to_grab
        THEN [tag |-> "PredictionThreshold", inputs |-> <<>>]
        ELSE IF merged_input.frame > frame_to_grab
        THEN [tag |-> "SpectatorTooFarBehind", inputs |-> <<>>]
        ELSE [tag |-> "Ok", inputs |-> SyncedInputs(s, frame_to_grab)]

\* events() that hands out the newest event only.
events_newest_only(s) ==
    [sess |-> [s EXCEPT !.event_queue = <<>>],
     drain |-> IF s.event_queue = <<>> THEN <<>> ELSE <<s.event_queue[Len(s.event_queue)]>>]

\* SpectatorSession::events: event_queue.drain(..)
events(s) == [sess |-> [s EXCEPT !.event_queue = <<>>], drain |-> s.event_queue]

\* SpectatorSession::frames_behind_host (its assertion is checked by the caller)
frames_behind_host(s) == s.last_recv_frame - s.current_frame

\* One AdvanceFrame request.
AdvanceFrameRequest(ins) == [kind |-> "AdvanceFrame", inputs |-> ins]

\* The loop of advance_frame as a rollback session would write it: a
\* SaveGameState request before every AdvanceFrame.
RECURSIVE AdvanceLoop_with_save(_, _, _)
AdvanceLoop_with_save(s, n, reqs) ==
    IF n = 0 THEN [sess |-> s, result |-> "Ok", requests |-> reqs]
    ELSE LET frame_to_grab == s.current_frame + 1
             synced_inputs == inputs_at_frame(s, frame_to_grab)
         IN  IF synced_inputs.tag # "Ok"
             THEN [sess |-> s, result |-> synced_inputs.tag, requests |-> <<>>]
             ELSE AdvanceLoop_with_save([s EXCEPT !.current_frame = @ + 1], n - 1,
                      reqs \o <<[kind |-> "SaveGameState", inputs |-> <<>>],
                                AdvanceFrameRequest(synced_inputs.inputs)>>)

\* The loop of advance_frame: `n` more frames; an error of inputs_at_frame is
\* returned at once, and the requests collected so far are dropped with it.
RECURSIVE AdvanceLoop(_, _, _)
AdvanceLoop(s, n, reqs) ==
    IF n = 0 THEN [sess |-> s, result |-> "Ok", requests |-> reqs]
    ELSE LET frame_to_grab == s.current_frame + 1
             synced_inputs == inputs_at_frame(s, frame_to_grab)
         IN  IF synced_inputs.tag # "Ok"
             THEN [sess |-> s, result |-> synced_inputs.tag, requests |-> <<>>]
             ELSE AdvanceLoop([s EXCEPT !.current_frame = @ + 1], n - 1,
                              Append(reqs, AdvanceFrameRequest(synced_inputs.inputs)))

\* FramesToAdvance catching up already at the threshold.
FramesToAdvance_at_threshold(s) ==
    IF frames_behind_host(s) >= s.max_frames_behind THEN s.catchup_speed ELSE NORMAL_SPEED

\* FramesToAdvance that never catches up.
FramesToAdvance_always_normal(s) == NORMAL_SPEED

\* How many frames advance_frame steps.
FramesToAdvance(s) ==
    IF frames_behind_host(s) > s.max_frames_behind THEN s.catchup_speed ELSE NORMAL_SPEED

\* advance_frame without the check of the session state.
advance_frame_no_state_check(s, msgs) ==
    LET s1 == poll_remote_clients(s, msgs)
    IN  IF s1.panicked THEN [sess |-> s1, result |-> "Panic", requests |-> <<>>]
        ELSE IF frames_behind_host(s1) < 0
        THEN [sess |-> [s1 EXCEPT !.panicked = TRUE], result |-> "Panic", requests |-> <<>>]
        ELSE AdvanceLoop(s1, FramesToAdvance(s1), <<>>)

\* SpectatorSession::advance_frame
advance_frame(s, msgs) ==
    LET s1 == poll_remote_clients(s, msgs)
    IN  IF s1.panicked THEN [sess |-> s1, result |-> "Panic", requests |-> <<>>]
        ELSE IF s1.state # "Running"
        THEN [sess |-> s1, result |-> "NotSynchronized", requests |-> <<>>]
        ELSE IF frames_behind_host(s1) < 0
        THEN [sess |-> [s1 EXCEPT !.panicked = TRUE], result |-> "Panic", requests |-> <<>>]
        ELSE AdvanceLoop(s1, FramesToAdvance(s1), <<>>)

\* ============================================================ the host's game
\* bincode of an i32 / u32 that is not negative: four bytes, little-endian.
LE4(n) == <<n % 256, (n \div 256) % 256, (n \div 65536) % 256, (n \div 16777216) % 256>>

FromLE4(b) == b[1] + 256 * b[2] + 65536 * b[3] + 16777216 * b[4]

\* bincode::serialize(&game_state) / bincode::deserialize(&buffer)
Serialize(gs) == LE4(gs.frame) \o LE4(gs.state)

Deserialize(buffer) ==
    [frame |-> FromLE4(SubSeq(buffer, 1, 4)), state |-> FromLE4(SubSeq(buffer, 5, 8))]

\* fletcher16 from data[index] on, with the two running sums.
RECURSIVE Fletcher(_, _, _, _)
Fletcher(data, index, sum1, sum2) ==
    IF index > Len(data) THEN (sum2 * 256) + sum1
    ELSE LET s1 == (sum1 + data[index]) % 255
         IN  Fletcher(data, index + 1, s1, (sum2 + s1) % 255)

fletcher16(data) == Fletcher(data, 1, 0, 0)

\* GameState::new(frame, Some(buffer), Some(checksum)); a cell never saved to
\* holds frame NULL_FRAME.
GameStateNew(frame, buffer, checksum) == [frame |-> frame, buffer |-> buffer, checksum |-> checksum]

BlankCell == GameStateNew(NULL_FRAME, <<>>, 0)

\* The game a new host starts with.
GameNew == [gs |-> [frame |-> 0, state |-> 0], panicked |-> FALSE]

\* The input a player's AdvanceFrame input stands for: a disconnected player's
\* (frame NULL_FRAME) counts as 4.
InputValue(input) == IF input.frame = NULL_FRAME THEN 4 ELSE input.input

\* game_state.advance(inputs): the frame counter goes up by one and the state
\* is folded from the old state and every player's input. `glitch` is what a
\* host that is not deterministic adds on its own (0 for a deterministic one).
GameAdvance(gs, ins, glitch) ==
    LET Sum[k \in 0..NumPlayers] ==
            IF k = 0 THEN 0 ELSE Sum[k - 1] + k * InputValue(ins[k])
    IN  [frame |-> gs.frame + 1,
         state |-> (3 * gs.state + Sum[NumPlayers] + glitch) % 65536]

\* save_game_state: the assertion on the frame, then the serialized state and
\* its checksum go into the cell.
save_game_state(g, frame) ==
    IF g.gs.frame # frame
    THEN [game |-> [g EXCEPT !.panicked = TRUE], saved |-> BlankCell]
    ELSE LET buffer == Serialize(g.gs)
         IN  [game |-> g, saved |-> GameStateNew(frame, buffer, fletcher16(buffer))]

\* load_game_state that leaves the game as it is.
load_game_state_ignored(g, cell) == g

\* load_game_state that restores the frame counter only.
load_game_state_frame_only(g, cell) ==
    IF cell.frame = NULL_FRAME THEN [g EXCEPT !.panicked = TRUE]
    ELSE [g EXCEPT !.gs.frame = Deserialize(cell.buffer).frame]

\* load_game_state: the game state becomes the deserialized buffer of the cell;
\* the unwrap of a cell without a buffer aborts.
load_game_state(g, cell) ==
    IF cell.frame = NULL_FRAME THEN [g EXCEPT !.panicked = TRUE]
    ELSE [g EXCEPT !.gs = Deserialize(cell.buffer)]

\* ======================================================== synctest session
\* The frames a saved-state ring holds: MAX_PREDICTION_FRAMES + 2.
MAX_PREDICTION_FRAMES == 8

RingCapacity == MAX_PREDICTION_FRAMES + 2

CellOf(frame) == frame % RingCapacity

\* start_synctest_session(num_players, input_size, check_distance)
SyncTestNew(check_distance) ==
    [check_distance |-> check_distance,
     current_frame |-> 0,
     frame_delay |-> [p \in Players |-> 0],
     \* the input queue of every player: queues[p][f + 1] is p's input of frame f
     queues |-> [p \in Players |-> <<>>],
     cells |-> [k \in 0..(RingCapacity - 1) |-> BlankCell],
     \* checksums[f + 1]: the checksum frame f had when it was first saved
     checksums |-> <<>>,
     \* the first frame whose checksum came out different, once there is one
     mismatch |-> NULL_FRAME]

\* set_frame_delay(frame_delay, player_handle), handles counted from 0.
set_frame_delay(s, delay, handle) ==
    IF handle + 1 \notin Players \/ delay >= MAX_PREDICTION_FRAMES
    THEN [sess |-> s, result |-> "InvalidRequest"]
    ELSE [sess |-> [s EXCEPT !.frame_delay[handle + 1] = delay], result |-> "Ok"]

\* InputQueue::add_input with the frame delay: the first input is preceded by
\* frame_delay zero inputs, every input lands frame_delay frames later.
AddInput(queue, delay, input) ==
    IF queue = <<>> THEN [k \in 1..delay |-> 0] \o <<input>> ELSE Append(queue, input)

\* synchronized_inputs(frame)
SynchronizedInputs(s, frame) ==
    [p \in Players |-> PlayerInputNew(frame, s.queues[p][frame + 1])]

SaveGameState(frame) == [kind |-> "SaveGameState", frame |-> frame, inputs |-> <<>>]

LoadGameState(frame) == [kind |-> "LoadGameState", frame |-> frame, inputs |-> <<>>]

\* The re-simulation of frames from..to-1: every frame advanced again with its
\* recorded inputs, the state it leads to saved for its checksum.
RECURSIVE Resimulate(_, _, _)
Resimulate(s, from, to) ==
    IF from >= to THEN <<>>
    ELSE <<AdvanceFrameRequest(SynchronizedInputs(s, from)), SaveGameState(from + 1)>>
         \o Resimulate(s, from + 1, to)

\* SyncTestSession::advance_frame(all_inputs)
synctest_advance_frame(s, all_inputs) ==
    IF s.mismatch # NULL_FRAME
    THEN [sess |-> s, result |-> "MismatchedChecksum", frame |-> s.mismatch, requests |-> <<>>]
    ELSE LET s1 == [s EXCEPT !.queues = [p \in Players |->
                                AddInput(s.queues[p], s.frame_delay[p], all_inputs[p])]]
             cf == s.current_frame
             first == <<SaveGameState(cf),
                        AdvanceFrameRequest(SynchronizedInputs(s1, cf)),
                        SaveGameState(cf + 1)>>
             again == IF cf + 1 >= s.check_distance
                      THEN <<LoadGameState(cf + 1 - s.check_distance)>>
                           \o Resimulate(s1, cf + 1 - s.check_distance, cf + 1)
                      ELSE <<>>
         IN  [sess |-> [s1 EXCEPT !.current_frame = cf + 1],
              result |-> "Ok", frame |-> NULL_FRAME, requests |-> first \o again]

\* GameStateCell::save as the synctest session sees it: the first checksum of a
\* frame is recorded, a later one is compared with it.
CellSave(s, saved) ==
    LET s1 == [s EXCEPT !.cells[CellOf(saved.frame)] = saved]
    IN  IF saved.frame + 1 > Len(s.checksums)
        THEN [s1 EXCEPT !.checksums = Append(@, saved.checksum)]
        ELSE IF s.checksums[saved.frame + 1] # saved.checksum /\ s.mismatch = NULL_FRAME
        THEN [s1 EXCEPT !.mismatch = saved.frame]
        ELSE s1

\* handle_requests: every request in order. `at` is the position of the
\* AdvanceFrame request at which a host that is not deterministic glitches
\* (0: nowhere); `log` collects what the host saved, in order.
RECURSIVE handle_requests(_, _, _, _, _, _)
handle_requests(g, s, reqs, k, at, log) ==
    IF k > Len(reqs) \/ g.panicked THEN [game |-> g, sess |-> s, log |-> log]
    ELSE LET req == reqs[k]
         IN  IF req.kind = "LoadGameState"
             THEN handle_requests(load_game_state(g, s.cells[CellOf(req.frame)]),
                                  s, reqs, k + 1, at, log)
             ELSE IF req.kind = "SaveGameState"
             THEN LET r == save_game_state(g, req.frame)
                  IN  IF r.game.panicked THEN [game |-> r.game, sess |-> s, log |-> log]
                      ELSE handle_requests(r.game, CellSave(s, r.saved), reqs, k + 1, at,
                                           Append(log, r.saved))
             ELSE handle_requests(
                      [g EXCEPT !.gs = GameAdvance(g.gs, req.inputs, IF k = at THEN 1 ELSE 0)],
                      s, reqs, k + 1, at, log)

\* ============================================== P2P session and sync layer
\* The local player and the remote one.
LocalPlayer == 1

RemotePlayer == 2

\* InputQueue::new: the inputs added so far (input of frame f at index f + 1,
\* last_added_frame = Len - 1), the prediction source, whether a prediction
\* is in use, the last frame a prediction was read for, and the first frame
\* whose prediction turned out wrong.
QueueNew ==
    [confirmed |-> <<>>,
     prediction |-> 0,
     prediction_is_active |-> FALSE,
     last_frame_requested |-> NULL_FRAME,
     first_incorrect_frame |-> NULL_FRAME]

\* InputQueue::input(frame): the stored input if there is one, else the
\* prediction, a copy of the last input added when predicting began.
queue_input(q, frame) ==
    IF frame < Len(q.confirmed)
    THEN [queue |-> q, input |-> q.confirmed[frame + 1]]
    ELSE LET q1 == IF q.prediction_is_active THEN q
                   ELSE [q EXCEPT !.prediction_is_active = TRUE,
                                  !.prediction = IF q.confirmed = <<>> THEN 0
                                                 ELSE q.confirmed[Len(q.confirmed)]]
         IN  [queue |-> [q1 EXCEPT !.last_frame_requested =
                                       IF @ < frame THEN frame ELSE @],
              input |-> q1.prediction]

\* InputQueue::add_remote_input: the input of the next frame; a prediction read
\* for that frame that differs from it makes the frame the first incorrect
\* one, a run of correct predictions ends once the inputs have caught up.
queue_add_remote_input(q, input) ==
    LET f == Len(q.confirmed)
        q1 == [q EXCEPT !.confirmed = Append(@, input)]
    IN  IF ~q.prediction_is_active \/ f > q.last_frame_requested THEN q1
        ELSE IF input # q.prediction
        THEN [q1 EXCEPT !.first_incorrect_frame = IF @ = NULL_FRAME THEN f ELSE @]
        ELSE IF q.first_incorrect_frame = NULL_FRAME /\ f = q.last_frame_requested
        THEN [q1 EXCEPT !.prediction_is_active = FALSE, !.last_frame_requested = NULL_FRAME]
        ELSE q1

\* InputQueue::reset_prediction
reset_prediction(q) ==
    [q EXCEPT !.prediction_is_active = FALSE,
              !.last_frame_requested = NULL_FRAME,
              !.first_incorrect_frame = NULL_FRAME]

\* A P2P session of two players whose endpoints are still synchronizing.
P2PNew ==
    [state |-> "Synchronizing",
     current_frame |-> 0,
     last_confirmed_frame |-> NULL_FRAME,
     max_prediction_frames |-> MAX_PREDICTION_FRAMES,
     queues |-> [p \in Players |-> QueueNew]]

\* The last frame every queue has an input for.
ConfirmedByAll(s) ==
    LET n == IF Len(s.queues[LocalPlayer].confirmed) < Len(s.queues[RemotePlayer].confirmed)
             THEN Len(s.queues[LocalPlayer].confirmed) ELSE Len(s.queues[RemotePlayer].confirmed)
    IN  n - 1

\* Confirmed-frame advancement, after remote input was added.
set_last_confirmed_frame(s) ==
    IF ConfirmedByAll(s) > s.last_confirmed_frame
    THEN [s EXCEPT !.last_confirmed_frame = ConfirmedByAll(s)]
    ELSE s

\* SyncLayer::add_remote_input for every input the poll has received, in order.
RECURSIVE add_remote_inputs(_, _)
add_remote_inputs(s, received) ==
    IF received = <<>> THEN s
    ELSE add_remote_inputs(
             set_last_confirmed_frame(
                 [s EXCEPT !.queues[RemotePlayer] = queue_add_remote_input(@, Head(received))]),
             Tail(received))

\* add_local_input that never stalls.
add_local_input_no_barrier(s, input) ==
    [sess |-> [s EXCEPT !.queues[LocalPlayer].confirmed = AddInput(@, 0, input)], result |-> "Ok"]

\* SyncLayer::add_local_input
add_local_input(s, input) ==
    IF s.current_frame - s.last_confirmed_frame >= s.max_prediction_frames
    THEN [sess |-> s, result |-> "PredictionThreshold"]
    ELSE [sess |-> [s EXCEPT !.queues[LocalPlayer].confirmed = AddInput(@, 0, input)],
          result |-> "Ok"]

\* SyncLayer::check_simulation: the rollback target, the smallest first
\* incorrect frame of the queues, and the frames to simulate again.
check_simulation(s) ==
    LET wrong == { s.queues[p].first_incorrect_frame : p \in Players } \ {NULL_FRAME}
    IN  IF wrong = {} THEN [count |-> 0, target |-> NULL_FRAME]
        ELSE LET t == CHOOSE f \in wrong : \A g \in wrong : f <= g
             IN  [count |-> s.current_frame - t + 1, target |-> t]

\* SyncLayer::synchronized_inputs(frame), with the queues as the reads leave them
synchronized_inputs(s, frame) ==
    LET r == [p \in Players |-> queue_input(s.queues[p], frame)]
    IN  [sess |-> [s EXCEPT !.queues = [p \in Players |-> r[p].queue]],
         inputs |-> [p \in Players |-> PlayerInputNew(frame, r[p].input)]]

\* SaveGameState and AdvanceFrame for the frames from..to, the newest first.
RECURSIVE emit_frames_descending(_, _, _)
emit_frames_descending(s, from, to) ==
    IF from > to THEN [sess |-> s, requests |-> <<>>]
    ELSE LET r == synchronized_inputs(s, to)
             rest == emit_frames_descending(r.sess, from, to - 1)
         IN  [sess |-> rest.sess,
              requests |-> <<SaveGameState(to), AdvanceFrameRequest(r.inputs)>>
                           \o rest.requests]

\* SaveGameState { frame } and AdvanceFrame { synchronized_inputs(frame) } for
\* the frames from..to in ascending order.
RECURSIVE emit_frames(_, _, _)
emit_frames(s, from, to) ==
    IF from > to THEN [sess |-> s, requests |-> <<>>]
    ELSE LET r == synchronized_inputs(s, from)
             rest == emit_frames(r.sess, from + 1, to)
         IN  [sess |-> rest.sess,
              requests |-> <<SaveGameState(from), AdvanceFrameRequest(r.inputs)>>
                           \o rest.requests]

\* The request emission of the sync layer: the rollback, if a prediction was
\* wrong, then the current frame.
emit_requests(s) ==
    LET c == check_simulation(s)
        back == IF c.target = NULL_FRAME THEN [sess |-> s, requests |-> <<>>]
                ELSE LET s1 == [s EXCEPT !.queues =
                                    [p \in Players |-> reset_prediction(s.queues[p])]]
                         r == emit_frames(s1, c.target, s.current_frame - 1)
                     IN  [sess |-> r.sess,
                          requests |-> <<LoadGameState(c.target)>> \o r.requests]
        now == emit_frames(back.sess, s.current_frame, s.current_frame)
    IN  [sess |-> [now.sess EXCEPT !.current_frame = s.current_frame + 1],
         requests |-> back.requests \o now.requests]

\* P2PSession::advance_frame with the local player's input; `received` is what
\* the poll of the remote endpoint yields: the remote player's next inputs.
p2p_advance_frame(s, local_input, received) ==
    LET polled == add_remote_inputs(s, received)
    IN  IF polled.state # "Running"
        THEN [sess |-> polled, result |-> "NotSynchronized", requests |-> <<>>]
        ELSE LET a == add_local_input(polled, local_input)
             IN  IF a.result # "Ok"
                 THEN [sess |-> a.sess, result |-> a.result, requests |-> <<>>]
                 ELSE LET e == emit_requests(a.sess)
                      IN  [sess |-> e.sess, result |-> "Ok", requests |-> e.requests]

\* ===================================================== codec: specification
\* Buffers of `size` bytes: zeros, 0xFF fill, a ramp 1, 2, ..., zeros with a last 1.
Patterns(size) ==
    { [i \in 1..size |-> 0],
      [i \in 1..size |-> 255],
      [i \in 1..size |-> i],
      [i \in 1..size |-> IF i = size THEN 1 ELSE 0] }

GameInputs(frames, sizes) ==
    UNION { { [frame |-> f, size |-> sz, buffer |-> b] : f \in frames, b \in Patterns(sz) }
            : sz \in sizes }

\* The runs of inputs drawn for a reference: up to MaxInputs inputs, the first at
\* frame 0 or 6, each next one 1 or 2 frames later, of the reference's size or
\* one byte larger.
RECURSIVE RunsFrom(_, _, _)
RunsFrom(ref, f, n) ==
    {<<>>} \cup
    (IF n = 0 THEN {}
     ELSE UNION { { <<g>> \o rest : rest \in RunsFrom(ref, f + step, n - 1) }
                  : g \in GameInputs({f}, {ref.size, ref.size + 1}), step \in {1, 2} })

PendingRuns(ref) == RunsFrom(ref, 0, MaxInputs) \cup RunsFrom(ref, 6, MaxInputs)

IdleSession == SessionNew(HostNew, DEFAULT_MAX_FRAMES_BEHIND, DEFAULT_CATCHUP_SPEED)

SessionIs(s) ==
    /\ state = s.state
    /\ inputs = s.inputs
    /\ host_connect_status = s.host_connect_status
    /\ host = s.host
    /\ event_queue = s.event_queue
    /\ current_frame = s.current_frame
    /\ last_recv_frame = s.last_recv_frame
    /\ max_frames_behind = s.max_frames_behind
    /\ catchup_speed = s.catchup_speed
    /\ panicked = s.panicked

ObsInit ==
    /\ last_op = "new"
    /\ result = "Ok"
    /\ requests = <<>>
    /\ emitted = 0
    /\ drained = <<>>
    /\ pushed = <<>>
    /\ replied = 0
    /\ arg = 0
    /\ highest = NULL_FRAME
    /\ oldest = NULL_FRAME

\* No synctest session in use.
RollIdle ==
    /\ sync = SyncTestNew(0)
    /\ stub = GameNew
    /\ reported = NULL_FRAME
    /\ saved_sums = <<>>
    /\ glitched = FALSE
    /\ p2p = P2PNew

NoResult == [tag |-> "None", bytes |-> <<>>, inputs |-> <<>>]

CodecIdle ==
    /\ reference = GameInputNew(NULL_FRAME, 0)
    /\ pending_input = <<>>
    /\ start_frame = 0
    /\ encoded = NoResult
    /\ decoded = NoResult
    /\ cpc = "idle"

InitCodec ==
    /\ reference \in GameInputs({NULL_FRAME, 5}, 0..MaxSize)
    /\ pending_input \in PendingRuns(reference)
    /\ start_frame \in {3} \cup (IF pending_input = <<>> THEN {} ELSE {pending_input[1].frame})
    /\ encoded = NoResult
    /\ decoded = NoResult
    /\ cpc = "args"
    /\ SessionIs(IdleSession)
    /\ ObsInit
    /\ rate = 0
    /\ RollIdle

\* encode(&reference, pending_input.iter())
Encode ==
    /\ cpc = "args"
    /\ LET r == encode(reference, pending_input)
       IN  /\ encoded' = [tag |-> r.tag, bytes |-> r.bytes, inputs |-> <<>>]
           /\ cpc' = IF r.tag = "Ok" THEN "encoded" ELSE "aborted"
    /\ UNCHANGED <<reference, pending_input, start_frame, decoded, sessVars, obsVars, rate, rollVars>>

\* decode(&reference, start_frame, encoded)
Decode ==
    /\ cpc = "encoded"
    /\ LET r == decode(reference, start_frame, encoded.bytes)
       IN  /\ decoded' = [tag |-> r.tag, bytes |-> <<>>, inputs |-> r.inputs]
           /\ cpc' = IF r.tag = "Panic" THEN "aborted" ELSE "decoded"
    /\ UNCHANGED <<reference, pending_input, start_frame, encoded, sessVars, obsVars, rate, rollVars>>

NextCodec == Encode \/ Decode

SpecCodec == InitCodec /\ [][NextCodec]_vars

\* ---------------------------------------------------------------------------
\* decode on what a datagram may carry: the RLE encoding of any bytes, whole
\* or with its last byte cut off.
RECURSIVE ByteStrings(_)
ByteStrings(n) ==
    IF n = 0 THEN {<<>>}
    ELSE ByteStrings(n - 1) \cup
         { Append(b, x) : b \in { c \in ByteStrings(n - 1) : Len(c) = n - 1 }, x \in {0, 1, 255} }

Payloads ==
    { rle_encode(raw) : raw \in ByteStrings(MaxRaw) } \cup
    { SubSeq(rle_encode(raw), 1, Len(rle_encode(raw)) - 1) : raw \in ByteStrings(MaxRaw) \ {<<>>} }

InitWire ==
    /\ reference \in GameInputs({NULL_FRAME, 5}, 1..MaxSize)
    /\ pending_input = <<>>
    /\ start_frame \in {0, 6}
    /\ encoded = NoResult
    /\ decoded = NoResult
    /\ cpc = "wire"
    /\ SessionIs(IdleSession)
    /\ ObsInit
    /\ rate = 0
    /\ RollIdle

\* A datagram with the compressed payload `bytes` has arrived.
Receive(bytes) ==
    /\ cpc = "wire"
    /\ encoded' = [tag |-> "Ok", bytes |-> bytes, inputs |-> <<>>]
    /\ cpc' = "encoded"
    /\ UNCHANGED <<reference, pending_input, start_frame, decoded, sessVars, obsVars, rate, rollVars>>

NextWire ==
    \/ \E bytes \in Payloads : Receive(bytes)
    \/ Decode

SpecWire == InitWire /\ [][NextWire]_vars

\* ---------------------------------------------------------------------------
\* The delta layer alone: delta_encode, then delta_decode of its bytes.
DeltaEncode ==
    /\ cpc = "args"
    /\ LET r == delta_encode(reference, pending_input)
       IN  /\ encoded' = [tag |-> r.tag, bytes |-> r.bytes, inputs |-> <<>>]
           /\ cpc' = IF r.tag = "Ok" THEN "delta_encoded" ELSE "aborted"
    /\ UNCHANGED <<reference, pending_input, start_frame, decoded, sessVars, obsVars, rate, rollVars>>

DeltaDecode ==
    /\ cpc = "delta_encoded"
    /\ LET r == delta_decode(reference, start_frame, encoded.bytes)
       IN  /\ decoded' = [tag |-> r.tag, bytes |-> <<>>, inputs |-> r.inputs]
           /\ cpc' = IF r.tag = "Panic" THEN "aborted" ELSE "delta_decoded"
    /\ UNCHANGED <<reference, pending_input, start_frame, encoded, sessVars, obsVars, rate, rollVars>>

NextDelta == DeltaEncode \/ DeltaDecode

SpecDelta == InitCodec /\ [][NextDelta]_vars

\* ================================================= spectator: specification
\* What SpectatorSessionBuilder hands to SpectatorSession::new, as
\* <<max_frames_behind, catchup_speed>>: the defaults, the specification's
\* catch-up scenario, and a catch-up speed above the threshold, which only the
\* builder's unchecked with_catchup_speed allows.
BuilderConfigs ==
    { <<DEFAULT_MAX_FRAMES_BEHIND, DEFAULT_CATCHUP_SPEED>>, <<10, 2>>, <<2, 5>> }

\* Settings with thresholds low enough to matter within a few frames; <<3, 0>>
\* is a catch-up speed of zero, which the builder allows as well.
ShortConfigs ==
    { <<DEFAULT_MAX_FRAMES_BEHIND, DEFAULT_CATCHUP_SPEED>>, <<1, 2>>, <<2, 5>>, <<3, 0>> }

\* SyncReply { random_reply }
SyncReply(nonce) == [type |-> "SyncReply", random_reply |-> nonce]

\* The reply to the endpoint's pending SyncRequest.
SyncReplyMsg == SyncReply(host.sync_random_request)

\* An Input datagram with the host's inputs of frames start..start+n-1.
InputMsg(start, n, status) ==
    [type |-> "Input",
     peer_connect_status |-> status,
     disconnect_requested |-> FALSE,
     start_frame |-> start,
     ack_frame |-> NULL_FRAME,
     inputs |-> [k \in 1..n |-> HostInput(start + k - 1)]]

\* The datagrams that may arrive next: a run is encoded against the last input
\* the receiver acknowledged, so it starts no later than the frame after the
\* last received one; it may repeat up to MaxOverlap received frames.
InputMsgs(h, statuses, maxFrame) ==
    { InputMsg(sn[1], sn[2], st) :
        sn \in { x \in ((h.last_recv_frame + 1 - MaxOverlap)..(h.last_recv_frame + 1)) \X (1..MaxBatch) :
                    x[1] >= 0 /\ x[1] + x[2] - 1 <= maxFrame },
        st \in statuses }

\* The highest frame among `sofar` and the inputs of the datagrams msgs.
RECURSIVE HighestIn(_, _)
HighestIn(sofar, msgs) ==
    IF msgs = <<>> THEN sofar
    ELSE LET m == Head(msgs)
             top == IF m.type = "Input" /\ m.inputs # <<>>
                    THEN m.inputs[Len(m.inputs)].frame ELSE NULL_FRAME
         IN  HighestIn(IF top > sofar THEN top ELSE sofar, Tail(msgs))

\* What one receive_all_messages() returns: nothing, or one datagram.
Batches(msgs) == {<<>>} \cup { <<m>> : m \in msgs }

SameStatus == { host.peer_connect_status }

FrameMsgs == {SyncReplyMsg} \cup InputMsgs(host, SameStatus, MaxFrame)

SessionAssign(s) ==
    /\ state' = s.state
    /\ inputs' = s.inputs
    /\ host_connect_status' = s.host_connect_status
    /\ host' = s.host
    /\ event_queue' = s.event_queue
    /\ current_frame' = s.current_frame
    /\ last_recv_frame' = s.last_recv_frame
    /\ max_frames_behind' = s.max_frames_behind
    /\ catchup_speed' = s.catchup_speed
    /\ panicked' = s.panicked

\* The user-visible events a poll of session s pushes: those of the endpoint's
\* events that are not inputs.
RECURSIVE ForwardedAll(_)
ForwardedAll(evs) ==
    IF evs = <<>> THEN <<>>
    ELSE (IF Head(evs).type = "Input" THEN <<>> ELSE <<Forwarded(Head(evs))>>)
         \o ForwardedAll(Tail(evs))

PushedBy(s, msgs) == ForwardedAll(HostPoll(HostHandleAll(s.host, msgs)).event_queue)

\* session.poll_remote_clients()
PollRemoteClients(msgs) ==
    /\ ~panicked
    /\ SessionAssign(poll_remote_clients(Sess, msgs))
    /\ last_op' = "poll_remote_clients"
    /\ result' = "Ok"
    /\ requests' = <<>>
    /\ pushed' = PushedBy(Sess, msgs)
    /\ drained' = <<>>
    /\ highest' = HighestIn(highest, msgs)
    /\ UNCHANGED <<emitted, replied, oldest, codecVars, rate, arg, rollVars>>

\* session.advance_frame()
AdvanceFrame(msgs) ==
    /\ ~panicked
    /\ LET r == advance_frame(Sess, msgs)
       IN  /\ SessionAssign(r.sess)
           /\ result' = r.result
           /\ requests' = r.requests
           /\ emitted' = emitted + Len(r.requests)
    /\ last_op' = "advance_frame"
    /\ pushed' = PushedBy(Sess, msgs)
    /\ drained' = <<>>
    /\ highest' = HighestIn(highest, msgs)
    /\ UNCHANGED <<replied, oldest, codecVars, rate, arg, rollVars>>

Init ==
    /\ \E c \in BuilderConfigs : SessionIs(SessionNew(HostNew, c[1], c[2]))
    /\ ObsInit
    /\ CodecIdle
    /\ rate = 0
    /\ RollIdle

Next ==
    \/ \E msgs \in Batches(FrameMsgs) : PollRemoteClients(msgs)
    \/ \E msgs \in Batches(FrameMsgs) : AdvanceFrame(msgs)

Spec == Init /\ [][Next]_vars

\* ---------------------------------------------------------------------------
\* The same session over the first frames only, with players disconnecting: a
\* datagram may announce one more player as disconnected, with a last frame next
\* to the datagram's first one.
Disconnecting(h) ==
    { [h.peer_connect_status EXCEPT ![p] = [disconnected |-> TRUE, last_frame |-> d]] :
        p \in { q \in Players : ~h.peer_connect_status[q].disconnected },
        d \in { h.last_recv_frame, h.last_recv_frame + 1 } }

ShortMsgs ==
    {SyncReplyMsg} \cup InputMsgs(host, SameStatus \cup Disconnecting(host), MaxShortFrame)

InitShort ==
    /\ \E c \in ShortConfigs : SessionIs(SessionNew(HostNew, c[1], c[2]))
    /\ ObsInit
    /\ CodecIdle
    /\ rate = 0
    /\ RollIdle

NextShort ==
    \/ \E msgs \in Batches(ShortMsgs) : PollRemoteClients(msgs)
    \/ \E msgs \in Batches(ShortMsgs) : AdvanceFrame(msgs)

SpecShort == InitShort /\ [][NextShort]_vars

\* ---------------------------------------------------------------------------
\* The same first frames over a transport that reorders and duplicates: a
\* datagram may start at any frame the host has sent, and a call may find two
\* datagrams waiting, in any order.
ReorderedMsgs ==
    {SyncReplyMsg} \cup
    { InputMsg(sn[1], sn[2], host.peer_connect_status) :
        sn \in { x \in (0..(host.last_recv_frame + 1)) \X (1..MaxBatch) :
                    x[1] + x[2] - 1 <= MaxShortFrame } }

Arrivals == Batches(ReorderedMsgs) \cup { <<a, b>> : a \in ReorderedMsgs, b \in ReorderedMsgs }

\* The first frame of the inputs of the last datagram of msgs.
OldestIn(msgs) ==
    IF msgs # <<>> /\ msgs[Len(msgs)].type = "Input"
    THEN msgs[Len(msgs)].start_frame ELSE NULL_FRAME

\* session.poll_remote_clients()
ReorderedPoll(msgs) ==
    /\ ~panicked
    /\ SessionAssign(poll_remote_clients(Sess, msgs))
    /\ last_op' = "poll_remote_clients"
    /\ result' = "Ok"
    /\ requests' = <<>>
    /\ pushed' = PushedBy(Sess, msgs)
    /\ drained' = <<>>
    /\ highest' = HighestIn(highest, msgs)
    /\ oldest' = OldestIn(msgs)
    /\ UNCHANGED <<emitted, replied, codecVars, rate, arg, rollVars>>

\* session.advance_frame()
ReorderedAdvance(msgs) ==
    /\ ~panicked
    /\ LET r == advance_frame(Sess, msgs)
       IN  /\ SessionAssign(r.sess)
           /\ result' = r.result
           /\ requests' = r.requests
           /\ emitted' = emitted + Len(r.requests)
    /\ last_op' = "advance_frame"
    /\ pushed' = PushedBy(Sess, msgs)
    /\ drained' = <<>>
    /\ highest' = HighestIn(highest, msgs)
    /\ oldest' = OldestIn(msgs)
    /\ UNCHANGED <<replied, codecVars, rate, arg, rollVars>>

InitReorder ==
    /\ SessionIs(IdleSession)
    /\ ObsInit
    /\ CodecIdle
    /\ rate = 0
    /\ RollIdle

NextReorder ==
    \/ \E msgs \in Arrivals : ReorderedPoll(msgs)
    \/ \E msgs \in Arrivals : ReorderedAdvance(msgs)

SpecReorder == InitReorder /\ [][NextReorder]_vars

\* ---------------------------------------------------------------------------
\* A host that delivers at a fixed rate: the application calls advance_frame
\* once per frame of its own, and between two calls the inputs of `rate` more
\* frames arrive, in one datagram. The endpoint takes inputs before its
\* handshake is over, so until then a call finds the next SyncReply, the next
\* inputs, or both. The builder's two settings are unchecked: thresholds of
\* zero and of the ring's size and a speed of zero are among them.
RateConfigs ==
    BuilderConfigs \cup ShortConfigs
        \cup { <<0, 0>>, <<0, 1>>, <<0, 2>>, <<SPECTATOR_BUFFER_SIZE, 2>> }

InitRate ==
    /\ \E c \in RateConfigs : SessionIs(SessionNew(HostNew, c[1], c[2]))
    /\ ObsInit
    /\ CodecIdle
    /\ rate \in 1..MaxRate
    /\ RollIdle

SyncTick ==
    /\ host.state = "Synchronizing"
    /\ AdvanceFrame(<<SyncReplyMsg>>)

InputTick ==
    /\ host.last_recv_frame + rate <= MaxRateFrame
    /\ AdvanceFrame(<<InputMsg(host.last_recv_frame + 1, rate, host.peer_connect_status)>>)

SyncInputTick ==
    /\ host.state = "Synchronizing"
    /\ host.last_recv_frame + rate <= MaxRateFrame
    /\ AdvanceFrame(<<SyncReplyMsg,
                      InputMsg(host.last_recv_frame + 1, rate, host.peer_connect_status)>>)

NextRate == SyncTick \/ InputTick \/ SyncInputTick

SpecRate == InitRate /\ [][NextRate]_vars

\* ---------------------------------------------------------------------------
\* The session with the clock and the handshake in view: every call finds the
\* endpoint's silence at some level not below the one before (a received
\* message ends it), the host's SyncReply may carry any nonce, and the
\* application fetches the events when it likes.
KeepAliveMsg == [type |-> "KeepAlive"]

Nonces == 1..(NUM_SYNC_PACKETS + 1)

TimedMsgs == { SyncReply(n) : n \in Nonces } \cup {KeepAliveMsg}

\* The nonce of the SyncReply among the datagrams of one call, 0 without one.
NonceIn(msgs) ==
    IF msgs # <<>> /\ msgs[1].type = "SyncReply" THEN msgs[1].random_reply ELSE 0

SilenceLevels == { l \in 0..2 : l >= host.silence }

\* The session as the call finds it when the silence has reached level lvl.
SessAfter(lvl) == [Sess EXCEPT !.host.silence = lvl]

TimedPoll(lvl, msgs) ==
    /\ ~panicked
    /\ SessionAssign(poll_remote_clients(SessAfter(lvl), msgs))
    /\ last_op' = "poll_remote_clients"
    /\ result' = "Ok"
    /\ requests' = <<>>
    /\ pushed' = PushedBy(SessAfter(lvl), msgs)
    /\ drained' = <<>>
    /\ replied' = NonceIn(msgs)
    /\ highest' = HighestIn(highest, msgs)
    /\ UNCHANGED <<emitted, codecVars, rate, arg, oldest, rollVars>>

TimedAdvance(lvl, msgs) ==
    /\ ~panicked
    /\ LET r == advance_frame(SessAfter(lvl), msgs)
       IN  /\ SessionAssign(r.sess)
           /\ result' = r.result
           /\ requests' = r.requests
           /\ emitted' = emitted + Len(r.requests)
    /\ last_op' = "advance_frame"
    /\ pushed' = PushedBy(SessAfter(lvl), msgs)
    /\ drained' = <<>>
    /\ replied' = NonceIn(msgs)
    /\ highest' = HighestIn(highest, msgs)
    /\ UNCHANGED <<codecVars, rate, arg, oldest, rollVars>>

\* session.events()
Events ==
    /\ ~panicked
    /\ LET r == events(Sess)
       IN  /\ SessionAssign(r.sess)
           /\ drained' = r.drain
    /\ last_op' = "events"
    /\ result' = "Ok"
    /\ requests' = <<>>
    /\ pushed' = <<>>
    /\ replied' = 0
    /\ UNCHANGED <<emitted, codecVars, rate, arg, highest, oldest, rollVars>>

InitTimed ==
    /\ SessionIs(IdleSession)
    /\ ObsInit
    /\ CodecIdle
    /\ rate = 0
    /\ RollIdle

NextTimed ==
    \/ \E lvl \in SilenceLevels, msgs \in Batches(TimedMsgs) : TimedPoll(lvl, msgs)
    \/ \E lvl \in SilenceLevels, msgs \in Batches(TimedMsgs) : TimedAdvance(lvl, msgs)
    \/ Events

SpecTimed == InitTimed /\ [][NextTimed]_vars

\* ---------------------------------------------------------------------------
\* A session whose settings are changed while it runs, over the first frames.
\* The values a setter is called with: around every limit the setters check
\* and around the default threshold.
MaxSetFrame == 1

SetValues ==
    (0..3) \cup ((DEFAULT_MAX_FRAMES_BEHIND - 1)..(DEFAULT_MAX_FRAMES_BEHIND + 1))
           \cup ((SPECTATOR_BUFFER_SIZE - 2)..(SPECTATOR_BUFFER_SIZE + 1))

SetMsgs == {SyncReplyMsg} \cup InputMsgs(host, SameStatus, MaxSetFrame)

\* session.set_catchup_speed(v)
SetCatchupSpeed(v) ==
    /\ ~panicked
    /\ LET r == set_catchup_speed(Sess, v)
       IN  /\ SessionAssign(r.sess)
           /\ result' = r.result
    /\ last_op' = "set_catchup_speed"
    /\ arg' = v
    /\ requests' = <<>>
    /\ pushed' = <<>>
    /\ drained' = <<>>
    /\ UNCHANGED <<emitted, replied, highest, oldest, codecVars, rate, rollVars>>

\* session.set_max_frames_behind(v)
SetMaxFramesBehind(v) ==
    /\ ~panicked
    /\ LET r == set_max_frames_behind(Sess, v)
       IN  /\ SessionAssign(r.sess)
           /\ result' = r.result
    /\ last_op' = "set_max_frames_behind"
    /\ arg' = v
    /\ requests' = <<>>
    /\ pushed' = <<>>
    /\ drained' = <<>>
    /\ UNCHANGED <<emitted, replied, highest, oldest, codecVars, rate, rollVars>>

InitSet ==
    /\ SessionIs(IdleSession)
    /\ ObsInit
    /\ CodecIdle
    /\ rate = 0
    /\ RollIdle

NextSet ==
    \/ \E v \in SetValues : SetCatchupSpeed(v)
    \/ \E v \in SetValues : SetMaxFramesBehind(v)
    \/ \E msgs \in Batches(SetMsgs) : PollRemoteClients(msgs)
    \/ \E msgs \in Batches(SetMsgs) : AdvanceFrame(msgs)

SpecSet == InitSet /\ [][NextSet]_vars

\* ---------------------------------------------------------------------------
\* Every event and every public operation in one run: handshake, inputs of
\* the first frames, silence and timeout, the setters and events(). The
\* application fetches the events before more than MaxQueued are waiting.
MaxQueued == 5

AllMsgs == {SyncReplyMsg, KeepAliveMsg} \cup InputMsgs(host, SameStatus, MaxSetFrame)

AllSetValues == {0, 2, SPECTATOR_BUFFER_SIZE}

InitAll ==
    /\ SessionIs(IdleSession)
    /\ ObsInit
    /\ CodecIdle
    /\ rate = 0
    /\ RollIdle

NextAll ==
    \/ \E lvl \in SilenceLevels, msgs \in Batches(AllMsgs) :
          Len(event_queue) < MaxQueued /\ TimedPoll(lvl, msgs)
    \/ \E lvl \in SilenceLevels, msgs \in Batches(AllMsgs) :
          Len(event_queue) < MaxQueued /\ TimedAdvance(lvl, msgs)
    \/ Events
    \/ \E v \in AllSetValues : SetCatchupSpeed(v)
    \/ \E v \in AllSetValues : SetMaxFramesBehind(v)

SpecAll == InitAll /\ [][NextAll]_vars

\* ---------------------------------------------------------------------------
\* The synctest session as its tests drive it: an optional set_frame_delay,
\* then advance_frame with input i for every player in the i-th call, every
\* request list fulfilled by the host's game before the next call.
CHECK_DISTANCE == 7

SessionQuiet ==
    /\ SessionIs(IdleSession)
    /\ CodecIdle
    /\ rate = 0
    /\ emitted = 0
    /\ drained = <<>>
    /\ pushed = <<>>
    /\ replied = 0
    /\ arg = 0
    /\ highest = NULL_FRAME
    /\ oldest = NULL_FRAME
    /\ panicked = FALSE

InitSync ==
    /\ sync = SyncTestNew(CHECK_DISTANCE)
    /\ stub = GameNew
    /\ reported = NULL_FRAME
    /\ saved_sums = <<>>
    /\ glitched = FALSE
    /\ p2p = P2PNew
    /\ last_op = "new"
    /\ result = "Ok"
    /\ requests = <<>>
    /\ SessionQuiet

\* sess.set_frame_delay(delay, handle), before the first frame
SetFrameDelay(delay, handle) ==
    /\ last_op = "new"
    /\ LET r == set_frame_delay(sync, delay, handle)
       IN  /\ sync' = r.sess
           /\ result' = r.result
    /\ last_op' = "set_frame_delay"
    /\ requests' = <<>>
    /\ UNCHANGED <<stub, reported, saved_sums, glitched, emitted, drained, pushed, replied, panicked,
                   codecVars, sessVars, rate, arg, highest, oldest, p2p>>

\* sess.advance_frame(&[i, i, ...]) in the i-th iteration of the test's loop
SyncTestAdvance ==
    /\ last_op \in {"new", "set_frame_delay", "handle_requests"}
    /\ result = "Ok"
    /\ ~stub.panicked
    /\ sync.current_frame < MaxSyncCalls
    /\ LET r == synctest_advance_frame(sync, [p \in Players |-> sync.current_frame])
       IN  /\ sync' = r.sess
           /\ result' = r.result
           /\ reported' = r.frame
           /\ requests' = r.requests
    /\ last_op' = "synctest_advance_frame"
    /\ UNCHANGED <<stub, saved_sums, glitched, emitted, drained, pushed, replied, panicked,
                   codecVars, sessVars, rate, arg, highest, oldest, p2p>>

\* The positions of the AdvanceFrame requests in a request list.
AdvancePositions(reqs) == { k \in 1..Len(reqs) : reqs[k].kind = "AdvanceFrame" }

\* The checksums saved so far, with those of log added.
RECURSIVE WithSaved(_, _)
WithSaved(sums, log) ==
    IF log = <<>> THEN sums
    ELSE LET f == Head(log).frame
             grown == IF f + 1 > Len(sums)
                      THEN sums \o [k \in 1..(f + 1 - Len(sums)) |-> {}]
                      ELSE sums
         IN  WithSaved([grown EXCEPT ![f + 1] = @ \cup {Head(log).checksum}], Tail(log))

\* stub.handle_requests(requests); the host glitches at request `at`, if at
\* all, and once in a run at most
HandleRequests(at) ==
    /\ last_op = "synctest_advance_frame"
    /\ result = "Ok"
    /\ at # 0 => ~glitched
    /\ LET r == handle_requests(stub, sync, requests, 1, at, <<>>)
       IN  /\ stub' = r.game
           /\ sync' = r.sess
           /\ saved_sums' = WithSaved(saved_sums, r.log)
    /\ glitched' = (glitched \/ at # 0)
    /\ last_op' = "handle_requests"
    /\ UNCHANGED <<result, requests, reported, emitted, drained, pushed, replied, panicked,
                   codecVars, sessVars, rate, arg, highest, oldest, p2p>>

NextSync ==
    \/ \E delay \in 1..MaxDelay, handle \in 0..(NumPlayers - 1) : SetFrameDelay(delay, handle)
    \/ SyncTestAdvance
    \/ \E at \in {0} \cup AdvancePositions(requests) : HandleRequests(at)

SpecSync == InitSync /\ [][NextSync]_vars

\* ---------------------------------------------------------------------------
\* A P2P session of a local and a remote player. The remote player's inputs
\* arrive late or in time, never for a frame after the local one, and change
\* at most MaxFlips times.
InitP2P ==
    /\ p2p = P2PNew
    /\ sync = SyncTestNew(0)
    /\ stub = GameNew
    /\ reported = NULL_FRAME
    /\ saved_sums = <<>>
    /\ glitched = FALSE
    /\ last_op = "new"
    /\ result = "Ok"
    /\ requests = <<>>
    /\ SessionQuiet

\* How often a sequence of inputs changes from one input to the next.
Flips(seq) == Cardinality({ k \in 1..(Len(seq) - 1) : seq[k] # seq[k + 1] })

\* What a poll of the remote endpoint may yield: up to MaxBatch inputs.
Received ==
    IF p2p.state # "Running" THEN {<<>>}
    ELSE { r \in UNION { [1..n -> 0..1] : n \in 0..MaxBatch } :
             /\ Len(p2p.queues[RemotePlayer].confirmed) + Len(r) <= p2p.current_frame + 1
             /\ Flips(p2p.queues[RemotePlayer].confirmed \o r) <= MaxFlips }

\* Both endpoints have completed the handshake.
P2PSynchronized ==
    /\ p2p.state = "Synchronizing"
    /\ p2p' = [p2p EXCEPT !.state = "Running"]
    /\ last_op' = "synchronized"
    /\ result' = "Ok"
    /\ requests' = <<>>
    /\ UNCHANGED <<sync, stub, reported, saved_sums, glitched, emitted, drained, pushed,
                   replied, panicked, codecVars, sessVars, rate, arg, highest, oldest>>

\* sess.advance_frame(local_handle, &input)
P2PAdvance(received) ==
    /\ p2p.current_frame <= MaxP2PFrame
    /\ LET r == p2p_advance_frame(p2p, p2p.current_frame % 2, received)
       IN  /\ p2p' = r.sess
           /\ result' = r.result
           /\ requests' = r.requests
    /\ last_op' = "p2p_advance_frame"
    /\ UNCHANGED <<sync, stub, reported, saved_sums, glitched, emitted, drained, pushed,
                   replied, panicked, codecVars, sessVars, rate, arg, highest, oldest>>

NextP2P ==
    \/ P2PSynchronized
    \/ \E received \in Received : P2PAdvance(received)

SpecP2P == InitP2P /\ [][NextP2P]_vars

\* ==================================================================== claims
\* ---- codec ----------------------------------------------------------------
SizesMatch == \A k \in 1..Len(pending_input) : pending_input[k].size = reference.size

StartIsFirst == pending_input # <<>> => start_frame = pending_input[1].frame

\* The run's frames are consecutive, and follow the reference's frame when it has one.
ContiguousRun ==
    /\ \A k \in 1..Len(pending_input) : pending_input[k].frame = pending_input[1].frame + (k - 1)
    /\ (reference.frame # NULL_FRAME /\ pending_input # <<>>)
           => pending_input[1].frame = reference.frame + 1

CodecFinished == cpc \in {"decoded", "aborted"}

RoundTripReturnsRun == decoded.tag = "Ok" /\ decoded.inputs = pending_input

\* C1 as stated: for any reference r and any inputs xs of r's size,
\* decode(r, start, encode(r, xs)) with start the frame of xs' first input
\* returns exactly xs.
C1_RoundTripAnyRun ==
    (cpc = "decoded" /\ SizesMatch /\ StartIsFirst) => RoundTripReturnsRun

\* C1 amended: the same for a reference of non-zero size and a run xs whose
\* frames are consecutive (following the reference's frame unless that is
\* NULL_FRAME): encode and decode both succeed and decode returns exactly xs.
C1_RoundTripContiguous ==
    (CodecFinished /\ SizesMatch /\ StartIsFirst /\ ContiguousRun /\ reference.size >= 1)
        => RoundTripReturnsRun

\* A round trip of two inputs of two bytes with a non-zero delta has been made.
C1_Witness ==
    /\ cpc = "decoded"
    /\ SizesMatch /\ StartIsFirst /\ ContiguousRun
    /\ reference.size = 2
    /\ Len(pending_input) = 2
    /\ pending_input[1].buffer # pending_input[2].buffer
    /\ pending_input[2].buffer # reference.buffer
    /\ decoded.inputs = pending_input

\* ---- spectator ------------------------------------------------------------
\* The step is a call of advance_frame.
AdvanceCalled == last_op' = "advance_frame"

\* The frame whose inputs the call's first step needs.
NextFrame == current_frame + 1

\* C2: a successful advance_frame returns catchup_speed AdvanceFrame requests
\* when last_recv_frame - current_frame, measured after polling, is greater than
\* max_frames_behind, and one request otherwise; current_frame grows by the
\* number of requests.
C2_StepCount ==
    [][(AdvanceCalled /\ result' = "Ok") =>
          /\ Len(requests') = (IF last_recv_frame' - current_frame > max_frames_behind
                               THEN catchup_speed ELSE 1)
          /\ current_frame' = current_frame + Len(requests')]_vars

\* The specification's scenario: threshold 10, speed 2, 15 frames behind, two requests.
C2_Witness ==
    /\ last_op = "advance_frame" /\ result = "Ok"
    /\ max_frames_behind = 10 /\ catchup_speed = 2
    /\ Len(requests) = 2
    /\ last_recv_frame - (current_frame - 2) = 15

\* C3: in a Running session advance_frame fails with PredictionThreshold
\* whenever the input of frame current_frame + 1 has not been received: its
\* ring slot holds a smaller frame or the initial NULL_FRAME.
C3_PredictionThreshold ==
    [][(AdvanceCalled /\ state' = "Running"
            /\ (inputs'[Slot(NextFrame)].frame < NextFrame \/ last_recv_frame' < NextFrame))
          => (result' = "PredictionThreshold" /\ requests' = <<>>
                /\ current_frame' = current_frame)]_vars

\* The threshold error on a ring slot that still holds the frame of a lap before.
C3_Witness ==
    /\ last_op = "advance_frame" /\ result = "PredictionThreshold"
    /\ inputs[Slot(current_frame + 1)].frame = current_frame + 1 - SPECTATOR_BUFFER_SIZE
    /\ current_frame >= SPECTATOR_BUFFER_SIZE

\* The threshold error of a running session that has received no input at all.
C3_WitnessNoInput ==
    /\ last_op = "advance_frame" /\ result = "PredictionThreshold"
    /\ state = "Running" /\ last_recv_frame = NULL_FRAME

ReqFrame(j) == current_frame - Len(requests) + j

\* C5 as stated: every AdvanceFrame request for frame f carries, for every
\* connected player, the input the host sent for that player at frame f.
C5_CarriesHostInputs ==
    \A j \in 1..Len(requests) : \A p \in Players :
        requests[j].inputs[p].frame # NULL_FRAME
            => requests[j].inputs[p].input = HostInputOf(ReqFrame(j), p)

\* C6 as stated: the AdvanceFrame requests handed to the caller are for the
\* frames 0, 1, 2, ... in order, none skipped: the k-th request ever returned
\* is for frame k - 1.
C6_ConsecutiveFrames ==
    (last_op = "advance_frame" /\ result = "Ok") =>
        \A j \in 1..Len(requests) : \A p \in Players :
            requests[j].inputs[p].frame \in {NULL_FRAME, emitted - Len(requests) + j - 1}

\* C7: every request advance_frame returns is an AdvanceFrame.
C7_OnlyAdvanceFrame ==
    \A j \in 1..Len(requests) : requests[j].kind = "AdvanceFrame"

C7_Witness ==
    /\ last_op = "advance_frame" /\ result = "Ok"
    /\ Len(requests) >= 2

\* C8: when the session is not Running after polling, advance_frame returns
\* NotSynchronized and no requests, and current_frame stays as it was.
C8_NotSynchronized ==
    [][(AdvanceCalled /\ state' # "Running") =>
          (result' = "NotSynchronized" /\ requests' = <<>>
             /\ current_frame' = current_frame)]_vars

\* NotSynchronized although inputs of the host have been received already.
C8_Witness ==
    /\ last_op = "advance_frame" /\ result = "NotSynchronized"
    /\ state = "Synchronizing"
    /\ last_recv_frame >= 1

\* C9: in every AdvanceFrame request for frame f, player p's input has frame
\* NULL_FRAME exactly when the session's connection status of p is disconnected
\* with last_frame < f, and frame f otherwise; the request holds num_players
\* inputs.
C9_DisconnectedInputs ==
    [][(AdvanceCalled /\ result' = "Ok") =>
          \A j \in 1..Len(requests') :
              /\ DOMAIN requests'[j].inputs = 1..NumPlayers
              /\ \A p \in Players :
                    requests'[j].inputs[p].frame =
                        (IF host_connect_status'[p].disconnected
                              /\ host_connect_status'[p].last_frame < current_frame + j
                         THEN NULL_FRAME ELSE current_frame + j)]_vars

\* A request with a disconnected player's NULL_FRAME input beside a player who
\* disconnected at this very frame and one still connected or not yet past it.
C9_Witness ==
    /\ last_op = "advance_frame" /\ result = "Ok" /\ Len(requests) >= 1
    /\ \E p, q \in Players :
          /\ requests[1].inputs[p].frame = NULL_FRAME
          /\ requests[1].inputs[q].frame = ReqFrame(1)
          /\ host_connect_status[q].disconnected
          /\ host_connect_status[q].last_frame = ReqFrame(1)

\* ---- spectator, host at a fixed rate ---------------------------------------
FramesBehind == last_recv_frame - current_frame

\* C10 as stated: with the host delivering at least one input per advance_frame
\* call, frames_behind_host stays bounded. Once the spectator is more than a
\* ring behind, it can never advance again and falls behind without bound, so
\* bounded means: never more than SPECTATOR_BUFFER_SIZE behind.
C10_LagBoundedAtAnyRate ==
    rate >= 1 => FramesBehind <= SPECTATOR_BUFFER_SIZE

\* The bound a call keeps: the lag before it, or max_frames_behind - 1 when
\* that is larger.
LagBound == MaxOf(FramesBehind, max_frames_behind - 1)

\* The host's rate is one the session can follow: catchup_speed is at least 1,
\* and the host delivers one input per call or at most catchup_speed.
RateFollowed ==
    /\ catchup_speed >= 1
    /\ rate = 1 \/ (1 <= rate /\ rate <= catchup_speed)

\* C10 amended: with the host delivering one input per advance_frame call, or
\* at most catchup_speed inputs per call, and a catchup_speed of at least 1, a
\* call that finds the session Running after its poll leaves
\* frames_behind_host no larger than the larger of its value before the call
\* and max_frames_behind - 1, as long as that bound plus the rate fits the
\* ring of 60 inputs. Over the whole run the lag is therefore bounded by the
\* larger of max_frames_behind - 1 and the lag the session had when it became
\* Running.
C10_LagBoundedUpToCatchupSpeed ==
    [][(/\ AdvanceCalled
        /\ state' = "Running"
        /\ RateFollowed
        /\ LagBound + rate <= SPECTATOR_BUFFER_SIZE)
          => FramesBehind' <= LagBound]_vars

\* A session that took inputs during its handshake and became Running more
\* than max_frames_behind frames behind a host as fast as its calls: after a
\* long run the one step per call has kept the lag where it was, above the
\* threshold and within the ring.
C10_Witness ==
    /\ rate = 1 /\ catchup_speed = 1
    /\ state = "Running"
    /\ last_op = "advance_frame" /\ result = "Ok" /\ Len(requests) = 1
    /\ FramesBehind > max_frames_behind
    /\ FramesBehind + rate <= SPECTATOR_BUFFER_SIZE
    /\ current_frame > SPECTATOR_BUFFER_SIZE

\* A host twice as fast as the spectator's calls, held below the threshold by
\* the catch-up steps for a long run.
C10_WitnessCatchup ==
    /\ rate = 2 /\ catchup_speed = 2
    /\ last_op = "advance_frame" /\ result = "Ok" /\ Len(requests) = 2
    /\ FramesBehind = max_frames_behind - 1
    /\ current_frame > SPECTATOR_BUFFER_SIZE

\* The lag growing where the rate is not followed: a catchup_speed of zero
\* above a threshold of zero, with a host as fast as the calls.
C10_WitnessZeroSpeed ==
    /\ rate = 1 /\ catchup_speed = 0 /\ max_frames_behind = 0
    /\ state = "Running"
    /\ last_op = "advance_frame" /\ result = "Ok" /\ requests = <<>>
    /\ FramesBehind > SPECTATOR_BUFFER_SIZE

\* ---- spectator: events ------------------------------------------------------
\* The last n elements of q.
LastOf(q, n) == IF Len(q) > n THEN SubSeq(q, Len(q) - n + 1, Len(q)) ELSE q

\* C11: after every call the event queue holds at most MAX_EVENT_QUEUE_SIZE
\* events: the newest 100 of the events it held followed by the events the call
\* pushed, in arrival order; events() returns the queue as it was, oldest
\* first, and leaves it empty.
C11_EventQueueBounded ==
    [][/\ Len(event_queue') <= MAX_EVENT_QUEUE_SIZE
       /\ last_op' \in {"poll_remote_clients", "advance_frame"}
             => event_queue' = LastOf(event_queue \o pushed', MAX_EVENT_QUEUE_SIZE)
       /\ last_op' = "events"
             => (drained' = event_queue /\ event_queue' = <<>>)]_vars

\* A full queue the last poll has pushed to, with the four Synchronizing events
\* gone and Synchronized the oldest event left.
C11_Witness ==
    /\ Len(event_queue) = MAX_EVENT_QUEUE_SIZE
    /\ event_queue[1].type = "Synchronized"
    /\ pushed # <<>>
    /\ event_queue[MAX_EVENT_QUEUE_SIZE] = pushed[Len(pushed)]

\* ---- synctest ---------------------------------------------------------------
\* The step is a call of the synctest session's advance_frame.
SyncTestCalled == last_op' = "synctest_advance_frame" /\ last_op # "synctest_advance_frame"

\* The step is the host fulfilling the requests of the last call.
RequestsHandled == last_op' = "handle_requests" /\ last_op = "synctest_advance_frame"

\* C12: driven by a deterministic host, every advance_frame of the synctest
\* session succeeds; once the host has fulfilled the requests of a call in
\* order, its frame is one greater than before the call and equals the number
\* of calls made, with and without a frame delay.
C12_SynctestProgress ==
    [][/\ (SyncTestCalled /\ ~glitched) => result' = "Ok"
       /\ RequestsHandled =>
             /\ ~stub'.panicked
             /\ stub'.gs.frame = stub.gs.frame + 1
             /\ stub'.gs.frame = sync'.current_frame]_vars

\* 200 calls of the test with set_frame_delay(2, 1), all fulfilled.
C12_Witness ==
    /\ last_op = "handle_requests"
    /\ ~glitched
    /\ sync.frame_delay = [p \in Players |-> IF p = 2 THEN 2 ELSE 0]
    /\ stub.gs.frame = 200
    /\ sync.current_frame = 200

\* The frames for which the host has saved two different checksums.
FramesDiffering == { f \in 0..(Len(saved_sums) - 1) : Cardinality(saved_sums[f + 1]) > 1 }

\* C13: a call that brings the session to a frame f >= check_distance asks the
\* host to save frame f, to load the state check_distance frames back and to
\* replay up to frame f, saving f again; advance_frame reports
\* MismatchedChecksum exactly when the host has saved two different checksums
\* for some frame, it names the first such frame, and it never reports it for
\* a deterministic host.
C13_ChecksumsCompared ==
    [][SyncTestCalled =>
          /\ (result' = "MismatchedChecksum") <=> (FramesDiffering # {})
          /\ result' = "MismatchedChecksum" =>
                (reported' \in FramesDiffering /\ \A f \in FramesDiffering : reported' <= f)
          /\ ~glitched => result' = "Ok"
          /\ (result' = "Ok" /\ sync'.current_frame >= sync'.check_distance) =>
                /\ requests'[3] = SaveGameState(sync'.current_frame)
                /\ requests'[4] = LoadGameState(sync'.current_frame - sync'.check_distance)
                /\ requests'[Len(requests')] = SaveGameState(sync'.current_frame)
                /\ Cardinality(AdvancePositions(requests')) = sync'.check_distance + 1]_vars

\* A mismatch reported for a frame that was replayed from check_distance frames back.
C13_Witness ==
    /\ last_op = "synctest_advance_frame"
    /\ result = "MismatchedChecksum"
    /\ reported >= CHECK_DISTANCE
    /\ Cardinality(saved_sums[reported + 1]) = 2

\* ---- P2P --------------------------------------------------------------------
\* The step is a call of the P2P session's advance_frame.
P2PCalled == last_op' = "p2p_advance_frame"

\* The frames of the remote player that were predicted before the call and
\* whose input, now known, differs from the prediction.
Mispredicted ==
    LET q == p2p.queues[RemotePlayer]
    IN  { f \in Len(q.confirmed)..q.last_frame_requested :
            /\ q.prediction_is_active
            /\ f < Len(p2p'.queues[RemotePlayer].confirmed)
            /\ p2p'.queues[RemotePlayer].confirmed[f + 1] # q.prediction }

\* The rollback target of the call: the first frame known to be mispredicted.
RollbackTarget ==
    IF p2p.queues[RemotePlayer].first_incorrect_frame # NULL_FRAME
    THEN p2p.queues[RemotePlayer].first_incorrect_frame
    ELSE IF Mispredicted = {} THEN NULL_FRAME
    ELSE CHOOSE f \in Mispredicted : \A g \in Mispredicted : f <= g

\* C14: a successful advance_frame that finds a misprediction with rollback
\* target t returns LoadGameState for t, then SaveGameState{f} and an
\* AdvanceFrame for every frame f from t to current_frame - 1 in ascending
\* order (the AdvanceFrame of t with the remote input as received), then
\* SaveGameState{current_frame} and an AdvanceFrame; without a misprediction
\* only the last two; current_frame is one greater after the call.
C14_RollbackRequestOrder ==
    [][(P2PCalled /\ result' = "Ok") =>
          LET t == RollbackTarget
              cf == p2p.current_frame
          IN  /\ p2p'.current_frame = cf + 1
              /\ t = NULL_FRAME =>
                    /\ Len(requests') = 2
                    /\ requests'[1] = SaveGameState(cf)
                    /\ requests'[2].kind = "AdvanceFrame"
              /\ t # NULL_FRAME =>
                    /\ t < cf
                    /\ Len(requests') = 1 + 2 * (cf - t + 1)
                    /\ requests'[1] = LoadGameState(t)
                    /\ \A i \in 0..(cf - t) :
                          /\ requests'[2 + 2 * i] = SaveGameState(t + i)
                          /\ requests'[3 + 2 * i].kind = "AdvanceFrame"
                          /\ \A p \in Players : requests'[3 + 2 * i].inputs[p].frame = t + i
                    /\ requests'[3].inputs[RemotePlayer].input
                          = p2p'.queues[RemotePlayer].confirmed[t + 1]]_vars

\* The rollback scenario: frames 10..13 simulated with the remote input
\* predicted from the last confirmed 0, the input of frame 10 arrives as 1.
C14_Witness ==
    /\ last_op = "p2p_advance_frame"
    /\ result = "Ok"
    /\ p2p.current_frame = 15
    /\ Len(requests) = 11
    /\ requests[1] = LoadGameState(10)
    /\ requests[2] = SaveGameState(10)
    /\ requests[3].inputs[RemotePlayer].input = 1
    /\ requests[10] = SaveGameState(14)
    /\ p2p.last_confirmed_frame = 10

\* C15: advance_frame fails with PredictionThreshold, adding no local input,
\* exactly when current_frame - last_confirmed_frame >= max_prediction_frames
\* once the remote inputs received are counted; the simulation is never more
\* than max_prediction_frames ahead of the last confirmed frame.
C15_PredictionBarrier ==
    /\ [](p2p.current_frame - p2p.last_confirmed_frame <= p2p.max_prediction_frames)
    /\ [][(P2PCalled /\ p2p.state = "Running") =>
             /\ (result' = "PredictionThreshold")
                   <=> (p2p.current_frame - p2p'.last_confirmed_frame
                            >= p2p.max_prediction_frames)
             /\ result' = "PredictionThreshold" =>
                   /\ p2p'.current_frame = p2p.current_frame
                   /\ p2p'.queues[LocalPlayer] = p2p.queues[LocalPlayer]
                   /\ requests' = <<>>]_vars

\* The session stalled at the barrier, max_prediction_frames ahead of the last
\* frame confirmed by the remote player.
C15_Witness ==
    /\ last_op = "p2p_advance_frame"
    /\ result = "PredictionThreshold"
    /\ p2p.current_frame - p2p.last_confirmed_frame = p2p.max_prediction_frames
    /\ p2p.last_confirmed_frame >= 0

\* ---- endpoint timers --------------------------------------------------------
\* The Disconnected events among evs.
DisconnectedIn(evs) == Cardinality({ k \in 1..Len(evs) : evs[k].type = "Disconnected" })

\* The step is a call that polls the host endpoint.
Polled == last_op' \in {"poll_remote_clients", "advance_frame"}

\* C16: a poll that finds a Running endpoint without a packet for
\* disconnect_timeout pushes exactly one Disconnected event, the last event of
\* that endpoint, which is Disconnected from then on; no other poll pushes a
\* Disconnected event, and polls of a Disconnected endpoint push nothing and
\* leave the session's event queue alone, whatever arrives: the session
\* forwards at most one Disconnected event.
C16_DisconnectOnce ==
    [][Polled =>
          /\ (host.state = "Running" /\ host'.silence = 2) => host'.state = "Disconnected"
          /\ (host.state # "Disconnected" /\ host'.state = "Disconnected") =>
                /\ DisconnectedIn(pushed') = 1
                /\ pushed'[Len(pushed')].type = "Disconnected"
                /\ event_queue'[Len(event_queue')].type = "Disconnected"
          /\ host'.state # "Disconnected" => DisconnectedIn(pushed') = 0
          /\ host.state = "Disconnected" =>
                /\ host'.state = "Disconnected"
                /\ pushed' = <<>>
                /\ event_queue' = event_queue]_vars

\* A call made after the timeout already disconnected the endpoint, the one
\* Disconnected event still in the queue.
C16_Witness ==
    /\ host.state = "Disconnected"
    /\ last_op = "advance_frame"
    /\ pushed = <<>>
    /\ DisconnectedIn(event_queue) = 1
    /\ event_queue[Len(event_queue)].type = "Disconnected"
    /\ state = "Running"

\* ---- handshake --------------------------------------------------------------
\* The Synchronized events among evs.
SynchronizedIn(evs) == Cardinality({ k \in 1..Len(evs) : evs[k].type = "Synchronized" })

\* The call has received the reply to the endpoint's pending SyncRequest.
Matched == replied' = host.sync_random_request

\* C17: a Synchronizing endpoint starts with 5 round trips to go; a SyncReply
\* with the pending nonce counts as one, any other reply changes nothing and
\* pushes no event; the endpoint leaves Synchronizing, pushing Synchronized
\* once, only on the matching reply when one round trip was left, and never
\* synchronizes again; an advance_frame that finds the session Running after
\* its poll does not return NotSynchronized.
C17_SyncHandshake ==
    /\ host.state = "Synchronizing" /\ host.sync_remaining_roundtrips = 5
    /\ [][Polled =>
             /\ (host.state = "Synchronizing" /\ Matched) =>
                   /\ host'.sync_remaining_roundtrips = host.sync_remaining_roundtrips - 1
                   /\ host'.state = "Synchronizing" <=> host.sync_remaining_roundtrips > 1
             /\ (host.state = "Synchronizing" /\ ~Matched) =>
                   /\ host'.state = "Synchronizing"
                   /\ host'.sync_remaining_roundtrips = host.sync_remaining_roundtrips
                   /\ host'.sync_random_request = host.sync_random_request
                   /\ pushed' = <<>>
                   /\ state' = state
             /\ SynchronizedIn(pushed') =
                   (IF host.state = "Synchronizing" /\ host'.state # "Synchronizing"
                    THEN 1 ELSE 0)
             /\ host.state # "Synchronizing" => host'.state # "Synchronizing"
             /\ (last_op' = "advance_frame" /\ host'.state = "Running") =>
                   result' # "NotSynchronized"]_vars

\* The call that takes the fifth matching reply, after a stale one was
\* discarded: the session is synchronized and advance_frame gets past the
\* state check.
C17_Witness ==
    /\ last_op = "advance_frame"
    /\ replied = NUM_SYNC_PACKETS
    /\ host.state = "Running"
    /\ state = "Running"
    /\ result # "NotSynchronized"
    /\ SynchronizedIn(pushed) = 1
    /\ SynchronizedIn(event_queue) = 1

\* A stale reply just discarded by a Synchronizing endpoint.
C17_WitnessStale ==
    /\ host.state = "Synchronizing"
    /\ replied # 0
    /\ replied # host.sync_random_request
    /\ replied + 1 # host.sync_random_request
    /\ host.sync_remaining_roundtrips = 2

\* ---- setters ----------------------------------------------------------------
\* Every field of the session but the two settings is as before.
OtherFieldsKept ==
    UNCHANGED <<state, inputs, host_connect_status, host, event_queue,
                current_frame, last_recv_frame, panicked>>

\* C18: set_catchup_speed(v) returns InvalidRequest when v < 1 or
\* v >= max_frames_behind and leaves catchup_speed as it is; otherwise it
\* returns Ok and catchup_speed becomes v; no other field of the session
\* changes.
C18_SetCatchupSpeed ==
    [][last_op' = "set_catchup_speed" =>
          /\ result' = (IF arg' < 1 \/ arg' >= max_frames_behind
                        THEN "InvalidRequest" ELSE "Ok")
          /\ catchup_speed' = (IF result' = "Ok" THEN arg' ELSE catchup_speed)
          /\ max_frames_behind' = max_frames_behind
          /\ OtherFieldsKept]_vars

\* A catch-up speed just below the default threshold accepted in a running
\* session.
C18_Witness ==
    /\ last_op = "set_catchup_speed"
    /\ result = "Ok"
    /\ arg = DEFAULT_MAX_FRAMES_BEHIND - 1
    /\ catchup_speed = arg
    /\ max_frames_behind = DEFAULT_MAX_FRAMES_BEHIND
    /\ current_frame >= 0

\* A catch-up speed equal to the threshold rejected.
C18_WitnessRejected ==
    /\ last_op = "set_catchup_speed"
    /\ result = "InvalidRequest"
    /\ arg = max_frames_behind
    /\ catchup_speed = DEFAULT_CATCHUP_SPEED

\* C19: set_max_frames_behind(v) returns InvalidRequest for every v smaller
\* than 2 and for every v >= 60 and leaves max_frames_behind as it is; for
\* every other v it returns Ok and max_frames_behind becomes v.
C19_SetMaxFramesBehind ==
    [][last_op' = "set_max_frames_behind" =>
          /\ result' = (IF arg' < 2 \/ arg' >= 60 THEN "InvalidRequest" ELSE "Ok")
          /\ max_frames_behind' = (IF result' = "Ok" THEN arg' ELSE max_frames_behind)]_vars

\* What set_max_frames_behind does: the lower limit it checks is 1.
C19_LowerLimitOne ==
    [][last_op' = "set_max_frames_behind" =>
          /\ result' = (IF arg' < 1 \/ arg' >= SPECTATOR_BUFFER_SIZE
                        THEN "InvalidRequest" ELSE "Ok")
          /\ max_frames_behind' = (IF result' = "Ok" THEN arg' ELSE max_frames_behind)
          /\ catchup_speed' = catchup_speed
          /\ OtherFieldsKept]_vars

\* set_max_frames_behind(1) accepted.
C19_Witness ==
    /\ last_op = "set_max_frames_behind"
    /\ result = "Ok"
    /\ arg = 1
    /\ max_frames_behind = 1

\* ---- frames behind the host -------------------------------------------------
\* C20: in every reachable state of a spectator session current_frame is at
\* most last_recv_frame, both NULL_FRAME at first: the difference
\* frames_behind_host asserts to be >= 0 is never negative and no assertion
\* has aborted the session.
C20_NeverAheadOfHost ==
    /\ current_frame <= last_recv_frame
    /\ frames_behind_host(Sess) >= 0
    /\ current_frame >= NULL_FRAME
    /\ ~panicked

\* A catch-up call stopped at the last frame received: the session has caught
\* up with the host and is not ahead of it.
C20_Witness ==
    /\ last_op = "advance_frame"
    /\ result = "PredictionThreshold"
    /\ catchup_speed > 1
    /\ current_frame = last_recv_frame
    /\ current_frame >= max_frames_behind

\* ---- errors of advance_frame ------------------------------------------------
\* C21: an advance_frame that returns an error leaves current_frame as it was
\* before the call; in every reachable state current_frame + 1 is the number
\* of AdvanceFrame requests advance_frame has returned so far.
C21_ErrorKeepsFrame ==
    /\ [][(AdvanceCalled /\ result' # "Ok") => current_frame' = current_frame]_vars
    /\ [](current_frame + 1 = emitted)

\* ---- reordered datagrams ----------------------------------------------------
\* C22: whatever order the datagrams arrive in and however often one is
\* repeated, no Input event handled has a frame at or below last_recv_frame
\* (the assertion of handle_event never aborts the session), last_recv_frame
\* only ever grows, and it is the highest frame received from the host, held
\* by its ring slot.
C22_LastRecvFrameHighest ==
    /\ [](~panicked)
    /\ [](last_recv_frame = highest)
    /\ [](last_recv_frame # NULL_FRAME => inputs[Slot(last_recv_frame)].frame = last_recv_frame)
    /\ [][last_recv_frame' >= last_recv_frame]_vars

\* A datagram with frames 0 and 1 only, arriving when frame 3 was received.
C22_Witness ==
    /\ last_op = "poll_remote_clients"
    /\ oldest = 0
    /\ last_recv_frame = 3
    /\ highest = 3
    /\ state = "Running"

\* ---- settings ---------------------------------------------------------------
\* C23: whatever setters were called on a session built with the defaults,
\* 1 <= catchup_speed < max_frames_behind < 60.
C23_SettingsOrdered ==
    /\ 1 <= catchup_speed
    /\ catchup_speed < max_frames_behind
    /\ max_frames_behind < 60

\* What the setters do keep: both settings stay within 1..59.
C23_SettingsInRange ==
    /\ catchup_speed \in 1..(SPECTATOR_BUFFER_SIZE - 2)
    /\ max_frames_behind \in 1..(SPECTATOR_BUFFER_SIZE - 1)

\* ---- session state ----------------------------------------------------------
\* C24: a spectator session starts in Synchronizing; its state becomes Running
\* in a call that handles a Synchronized event of the host endpoint and in no
\* other step; a Running session stays Running whatever event it handles and
\* whatever operation is called.
C24_SessionState ==
    /\ state = "Synchronizing"
    /\ [][/\ state' \in {"Synchronizing", "Running"}
          /\ state = "Running" => state' = "Running"
          /\ (state = "Synchronizing" /\ state' = "Running") =>
                (Polled /\ SynchronizedIn(pushed') = 1)
          /\ (state = "Synchronizing" /\ Polled /\ SynchronizedIn(pushed') = 0) =>
                state' = "Synchronizing"]_vars

\* Still Running after inputs, an interruption and the disconnect of the
\* host, with a changed setting and the events fetched.
C24_Witness ==
    /\ state = "Running"
    /\ host.state = "Disconnected"
    /\ last_recv_frame >= 0
    /\ max_frames_behind = 2
    /\ last_op = "events"
    /\ DisconnectedIn(drained) = 1

\* Still Synchronizing after progress events of the handshake and a setter.
C24_WitnessSynchronizing ==
    /\ state = "Synchronizing"
    /\ host.sync_remaining_roundtrips = 1
    /\ last_op = "set_catchup_speed"
    /\ Len(event_queue) = 4

\* ---- received payloads ------------------------------------------------------
\* The payload received decompresses, to a number of bytes that is not a
\* multiple of the reference input's size.
OddLength ==
    /\ rle_decode(encoded.bytes).ok
    /\ Len(rle_decode(encoded.bytes).bytes) % reference.size # 0

\* C25: decoding a received payload never aborts; a payload whose decompressed
\* length is not a multiple of the reference input's size makes decode return
\* an error.
C25_DecodeNeverAborts ==
    /\ cpc # "aborted"
    /\ decoded.tag # "Panic"
    /\ (cpc = "decoded" /\ OddLength) => decoded.tag = "Err"

\* What decode does with received payloads: an error for data the RLE layer
\* rejects, the inputs for a whole number of inputs, and an abort otherwise.
C25_AbortsOnOddLength ==
    /\ cpc = "decoded" => (decoded.tag = "Err" <=> ~rle_decode(encoded.bytes).ok)
    /\ cpc = "aborted" <=> (encoded.tag = "Ok" /\ decoded.tag = "Panic")
    /\ cpc = "aborted" => OddLength

\* A payload cut short, for which decode has returned an error.
C25_WitnessError ==
    /\ cpc = "decoded"
    /\ decoded.tag = "Err"
    /\ encoded.bytes # <<>>

\* ---- delta layer ------------------------------------------------------------
\* delta_encode has returned its bytes.
DeltaEncoded == cpc \in {"delta_encoded", "delta_decoded"}

\* n * s bytes, byte k*s+j the XOR of the reference's byte j and input k's byte j
\* (k and j from 0 in the source, from 1 here).
DeltaLayout ==
    /\ encoded.tag = "Ok"
    /\ Len(encoded.bytes) = Len(pending_input) * reference.size
    /\ \A k \in 1..Len(pending_input) : \A j \in 1..reference.size :
           encoded.bytes[(k - 1) * reference.size + j]
               = Xor8(reference.buffer[j], pending_input[k].buffer[j])

\* n inputs, the k-th (from 0) stamped start_frame + k and carrying input k's bytes.
DeltaDecodedFromStart ==
    /\ decoded.tag = "Ok"
    /\ Len(decoded.inputs) = Len(pending_input)
    /\ \A k \in 1..Len(pending_input) :
           /\ decoded.inputs[k].frame = start_frame + (k - 1)
           /\ decoded.inputs[k].size = reference.size
           /\ InputBytes(decoded.inputs[k]) = InputBytes(pending_input[k])

\* The frames delta_encode accepts: any when the reference has none, else the
\* i-th input (from 0) at the reference's frame + i + 1.
FollowsReference ==
    reference.frame = NULL_FRAME
        \/ \A k \in 1..Len(pending_input) : pending_input[k].frame = reference.frame + k

\* C26 as stated: delta_encode of n inputs of size s against a reference of
\* size s produces exactly n * s bytes, byte k*s+j being reference[j] XOR
\* input_k[j], and delta_decode of those bytes with a start_frame returns
\* exactly n inputs stamped start_frame, ..., start_frame + n - 1.
C26_DeltaAnyRun ==
    SizesMatch =>
        /\ cpc # "aborted"
        /\ DeltaEncoded => DeltaLayout
        /\ cpc = "delta_decoded" => DeltaDecodedFromStart

\* C26 amended: the same for inputs whose frames delta_encode accepts (no
\* condition when the reference's frame is NULL_FRAME, else input i at the
\* reference's frame + i + 1); the decoding half for a size s of at least one.
\* The frames returned come from start_frame whatever frames went in.
C26_DeltaAcceptedRun ==
    (SizesMatch /\ FollowsReference) =>
        /\ cpc # "args" => encoded.tag = "Ok"
        /\ DeltaEncoded => DeltaLayout
        /\ reference.size >= 1 => cpc # "aborted"
        /\ cpc = "delta_decoded" => DeltaDecodedFromStart

\* Two inputs of two bytes that differ from a non-zero reference, at frames 0
\* and 2, decoded with start_frame 3 into frames 3 and 4.
C26_Witness ==
    /\ cpc = "delta_decoded"
    /\ SizesMatch /\ FollowsReference
    /\ reference.size = 2
    /\ reference.buffer # <<0, 0>>
    /\ Len(pending_input) = 2
    /\ pending_input[1].frame = 0 /\ pending_input[2].frame = 2
    /\ pending_input[1].buffer # pending_input[2].buffer
    /\ start_frame = 3
    /\ Len(encoded.bytes) = 4
    /\ decoded.inputs[1].frame = 3 /\ decoded.inputs[2].frame = 4

\* ---- receive ring -----------------------------------------------------------
RingSlots == 0..(SPECTATOR_BUFFER_SIZE - 1)

\* The highest frame of residue class s among the frames 0..top, NULL_FRAME
\* when there is none.
HighestInClass(s, top) ==
    IF s > top THEN NULL_FRAME ELSE top - ((top - s) % SPECTATOR_BUFFER_SIZE)

\* C27: every slot s of the receive ring holds the initial NULL_FRAME input
\* or the input of a frame congruent to s modulo 60, the highest frame received
\* so far in that residue class; a step changes a slot only when it handles an
\* input whose frame mod 60 is that slot.
C27_RingSlots ==
    /\ [](\A s \in RingSlots :
            /\ inputs[s].frame = NULL_FRAME \/ inputs[s].frame % SPECTATOR_BUFFER_SIZE = s
            /\ inputs[s].frame = HighestInClass(s, highest)
            /\ inputs[s] = (IF inputs[s].frame = NULL_FRAME
                            THEN BlankInput(NULL_FRAME) ELSE HostInput(inputs[s].frame)))
    /\ [][inputs' # inputs =>
            /\ Polled
            /\ \A s \in RingSlots :
                   inputs'[s] # inputs[s] =>
                       \E f \in (last_recv_frame + 1)..last_recv_frame' :
                           f % SPECTATOR_BUFFER_SIZE = s]_vars

\* The ring after a lap: slot 1 overwritten by frame 61, slot 2 still holding
\* frame 2, slot 59 holding frame 59, and the session past frame 1.
C27_Witness ==
    /\ last_recv_frame = 61
    /\ inputs[0].frame = 60
    /\ inputs[1].frame = 61
    /\ inputs[2].frame = 2
    /\ inputs[59].frame = 59
    /\ current_frame >= 2
====
